---- MODULE Spec2Model ----
(***************************************************************************)
(* Model of the probability-estimation and scoring engine of the           *)
(* WeatherPrediction repository:                                           *)
(*   - WeatherMLModel (src/weather_ml_integration.js): the history buffer, *)
(*     predict, the eight per-quantity models, calculateProbabilities,     *)
(*     calculateRiskAssessment, calculateSuitabilityScore;                 *)
(*   - calculateWeatherProbabilities / generateRiskAssessment              *)
(*     (src/exported-assets - Copy (2)/start_backend.bat, lines 46-211);   *)
(*   - WeatherPredictionApp.calculateSuitabilityScore (src/app.js);        *)
(*   - the five-step wizard of WeatherPredictionApp (src/app.js) with its  *)
(*     asynchronous analyzeWeather;                                        *)
(*   - analyzeWeather, the request cache and the fallback mode of          *)
(*     WeatherProbabilityApp (src/unnamed/part_001).                       *)
(*                                                                         *)
(* Numbers.  JavaScript doubles are modelled by exact integer arithmetic:  *)
(*   - quantities of the ML model (temperature, humidity, pressure, wind,  *)
(*     precipitation, cloud cover, UV, AQI, latitude, sin factors, random  *)
(*     draws) are integers counting hundredths; every model output is      *)
(*     rounded to the nearest hundredth;                                   *)
(*   - probabilities of the ML model count 1/3000 of a percentage point    *)
(*     (so 100% is 300000), which makes calculateProbabilities exact;      *)
(*   - fields of a daily record count tenths; probabilities handed to      *)
(*     generateRiskAssessment are exact fractions num/den with one common  *)
(*     denominator; values rounded by Math.round(x*10)/10 count tenths.    *)
(* Math.round is round-half-up (floor(x + 1/2)).  A double can differ from *)
(* the exact value by one unit in the last place, which the model does not *)
(* represent.                                                              *)
(***************************************************************************)
EXTENDS Integers, Sequences, FiniteSets, TLC

VARIABLES
    weatherHistory,   \* WeatherMLModel.weatherHistory
    predictCount,     \* number of predict calls made on the instance (identity of a prediction)
    lastCall,         \* the last call made: [op, args, ret], and for a call that
                      \* takes an array of the caller, the array after the call
    callLog,          \* earlier calls, oldest first (used to compare repeated calls)
    wizard,           \* WeatherPredictionApp (src/app.js): the fields of the instance,
                      \* the form inputs it reads, and its analyses in flight
    client            \* WeatherProbabilityApp (src/unnamed/part_001), its backend and clock

vars == <<weatherHistory, predictCount, lastCall, callLog, wizard, client>>

----------------------------------------------------------------------------
(* Arithmetic helpers *)

Abs(x) == IF x < 0 THEN -x ELSE x
Min(a, b) == IF a < b THEN a ELSE b
Max(a, b) == IF a > b THEN a ELSE b

\* floor(a / b) for any sign of a and b # 0
FloorDiv(a, b) == IF b > 0 THEN a \div b ELSE (-a) \div (-b)

\* Math.round(a / b): floor(a/b + 1/2)
MathRound(a, b) == IF b > 0 THEN (2 * a + b) \div (2 * b)
                   ELSE (2 * (-a) + (-b)) \div (2 * (-b))

RECURSIVE SumSeq(_)
SumSeq(s) == IF s = <<>> THEN 0 ELSE Head(s) + SumSeq(Tail(s))

\* Array.prototype.slice(-n)
SliceLast(s, n) == IF Len(s) <= n THEN s ELSE SubSeq(s, Len(s) - n + 1, Len(s))

----------------------------------------------------------------------------
(* Bounds of the model *)

\* predict calls made on one instance
MaxPredictCalls == 50
\* predict calls whose location, clock and random draws vary; later calls
\* use the default location, one clock reading and the middle draws
MaxVariedCalls == 1
\* calls of calculateWeatherProbabilities and generateRiskAssessment made
\* one after the other and compared
MaxRepeatCalls == 3

\* WeatherMLModel.maxHistorySize
maxHistorySize == 48


----------------------------------------------------------------------------
(* JavaScript values that may be absent *)

Undefined == [def |-> FALSE, v |-> 0]
Num(x) == [def |-> TRUE, v |-> x]

\* a || b for a number a that may be absent: 0 and undefined are falsy
OrElse(a, b) == IF a.def /\ a.v # 0 THEN a.v ELSE b

----------------------------------------------------------------------------
(* WeatherMLModel: inputs *)

\* A reading of new Date(): the hour, the day of the year and the two sine
\* factors computed from them, in hundredths:
\*   seasonal_factor = sin(2 pi day_of_year / 365), daily_factor = sin(2 pi hour / 24)
Clocks ==
    { [hour |-> 0,  day_of_year |-> 365, seasonal |-> 0,    daily |-> 0],
      [hour |-> 6,  day_of_year |-> 91,  seasonal |-> 100,  daily |-> 100],
      [hour |-> 18, day_of_year |-> 274, seasonal |-> -100, daily |-> -100],
      [hour |-> 3,  day_of_year |-> 183, seasonal |-> -1,   daily |-> 71] }

MidClock == [hour |-> 0, day_of_year |-> 365, seasonal |-> 0, daily |-> 0]

\* The Math.random() calls of one predict, in hundredths of [0, 1)
DrawNames == {"temperature", "humidity", "pressure", "windSpeed", "precipOccur",
              "precipAmount", "cloudCover", "uvIndex", "aqi",
              "pm25", "pm10", "no2", "o3", "so2"}

Uniform(r) == [k \in DrawNames |-> r]

MidDraws == Uniform(50)

RandomDraws ==
    { Uniform(0), MidDraws, Uniform(99),
      [MidDraws EXCEPT !["precipOccur"] = 0, !["precipAmount"] = 99] }

\* location arguments of predict: lat and lng in hundredths of a degree, or absent
Locations ==
    { [lat |-> Undefined,   lng |-> Undefined],
      [lat |-> Num(0),      lng |-> Num(0)],
      [lat |-> Num(1000),   lng |-> Num(7700)],
      [lat |-> Num(-2350),  lng |-> Num(-4600)],
      [lat |-> Num(4999),   lng |-> Num(200)],
      [lat |-> Num(5000),   lng |-> Num(200)],
      [lat |-> Num(-7500),  lng |-> Num(0)] }

DefaultLocation == [lat |-> Undefined, lng |-> Undefined]

\* weights of a preset, in hundredths
Weights(t, w, h, p, a) ==
    [temp |-> Num(t), wind |-> Num(w), humidity |-> Num(h),
     precipitation |-> Num(p), air_quality |-> Num(a)]

NoWeights == [def |-> FALSE, v |-> Weights(0, 0, 0, 0, 0)]
SomeWeights(w) == [def |-> TRUE, v |-> w]

\* preset = {} (the default argument of predict)
EmptyPreset ==
    [tempMin |-> Undefined, tempMax |-> Undefined, windMax |-> Undefined,
     humidityMax |-> Undefined, precipMax |-> Undefined, weights |-> NoWeights]

\* config.presets of app.js (ranges in hundredths)
BeachPreset ==
    [tempMin |-> Num(2500), tempMax |-> Num(3200), windMax |-> Num(1500),
     humidityMax |-> Num(7000), precipMax |-> Num(200),
     weights |-> SomeWeights(Weights(30, 20, 15, 25, 10))]

SkiPreset ==
    [tempMin |-> Num(-1000), tempMax |-> Num(500), windMax |-> Num(3000),
     humidityMax |-> Num(8000), precipMax |-> Num(2000),
     weights |-> SomeWeights(Weights(40, 20, 10, 20, 10))]

PhotographyPreset ==
    [tempMin |-> Num(1000), tempMax |-> Num(3000), windMax |-> Num(2000),
     humidityMax |-> Num(7500), precipMax |-> Num(0),
     weights |-> SomeWeights(Weights(20, 25, 15, 35, 5))]

Presets == {EmptyPreset, BeachPreset, SkiPreset, PhotographyPreset}

----------------------------------------------------------------------------
(* WeatherMLModel: pure parts *)

\* getSeasonalBaseTemp: 15 + seasonalFactor * 10
getSeasonalBaseTemp(clock) == 1500 + clock.seasonal * 10

\* getHistoricalData: {} for an empty buffer, else the averages of the last 3
getHistoricalData(history) ==
    IF Len(history) = 0
    THEN [temperature |-> Undefined, humidity |-> Undefined,
          pressure |-> Undefined, temperature_lag2 |-> Undefined]
    ELSE LET recent == SliceLast(history, 3)
             n == Len(recent)
             temps == [i \in 1..n |-> recent[i].temperature]
             hums == [i \in 1..n |-> recent[i].humidity]
             press == [i \in 1..n |-> recent[i].pressure]
         IN [temperature |-> Num(MathRound(SumSeq(temps), n)),
             humidity |-> Num(MathRound(SumSeq(hums), n)),
             pressure |-> Num(MathRound(SumSeq(press), n)),
             temperature_lag2 |->
                 IF Len(history) > 1
                 THEN Num(history[Len(history) - 1].temperature)
                 ELSE Undefined]

\* getLocationBasedDefaults: climate zone by |lat|, lat || 40.7128
getLocationBasedDefaults(location, clock) ==
    LET lat == OrElse(location.lat, 4071)
        s == clock.seasonal
        d == clock.daily
        zone == IF Abs(lat) < 2350 THEN "tropical"
                ELSE IF Abs(lat) < 5000 THEN "temperate" ELSE "polar"
        baseTemp == CASE zone = "tropical" -> 2600 + s * 3 + d * 4
                      [] zone = "temperate" -> 1500 + s * 15 + d * 5
                      [] OTHER -> 0 + s * 20 + d * 3
        baseHumidity == CASE zone = "tropical" -> 7500 + s * 10
                          [] zone = "temperate" -> 6000 + s * 15
                          [] OTHER -> 6500 + s * 10
        basePressure == CASE zone = "tropical" -> 101000 + s * 3
                          [] zone = "temperate" -> 101300 + s * 5
                          [] OTHER -> 101500 + s * 8
    IN [zone |-> zone,
        temperature |-> baseTemp,
        humidity |-> Max(2000, Min(10000, baseHumidity)),
        pressure |-> basePressure]

\* prepareFeatures: lag features from the history averages, else the
\* location defaults, else constants (a || b || c).  An average of buffered
\* temperatures is 0, and falsy, when they are all 0 (predict stores
\* Math.max(0, ...)).  currentWeather.temperature is a sum of sine terms
\* that is not exactly 0 in doubles on any day of the year and hour, so it
\* is truthy even where its value in hundredths is 0, and
\* getSeasonalBaseTemp() is not reached.
prepareFeatures(currentWeather, hist, clock) ==
    LET t1 == OrElse(hist.temperature, currentWeather.temperature)
        t2 == OrElse(hist.temperature_lag2, currentWeather.temperature)
        h1 == OrElse(hist.humidity, OrElse(Num(currentWeather.humidity), 7000))
        p1 == OrElse(hist.pressure, OrElse(Num(currentWeather.pressure), 101300))
    IN [temperature_lag1 |-> t1,
        temperature_lag2 |-> t2,
        humidity_lag1 |-> h1,
        pressure_lag1 |-> p1,
        hour |-> clock.hour,
        day_of_year |-> clock.day_of_year,
        seasonal_factor |-> clock.seasonal,
        daily_factor |-> clock.daily,
        \* temperature_lag1 * humidity_lag1, in 1/10000
        temp_humidity_interaction |-> t1 * h1]

\* a variant of the models' clamp that forgets the upper end: Math.max(lo, x)
ClampLowerOnly(lo, hi, x) == Max(lo, x)

\* Each model: the sum in 1/10000, rounded to hundredths, then clamped.
Clamp(lo, hi, x) == Max(lo, Min(hi, x))

TemperatureModel(f, r) ==
    Clamp(-2000, 4500,
          MathRound(f.temperature_lag1 * 85 + f.seasonal_factor * 320
                    + f.daily_factor * 210 + (f.pressure_lag1 - 101300) * 8
                    + MathRound(f.temp_humidity_interaction, 1000)
                    + (r - 50) * 150, 100))

HumidityModel(f, r) ==
    Clamp(1500, 9500,
          MathRound(f.humidity_lag1 * 70 + (2500 - f.temperature_lag1) * 180
                    + f.seasonal_factor * 400 + (101300 - f.pressure_lag1) * 15
                    + f.daily_factor * 800 + (r - 50) * 800, 100))

PressureModel(f, r) ==
    Clamp(98000, 104000,
          MathRound(f.pressure_lag1 * 95 + f.seasonal_factor * 350
                    + f.daily_factor * 200 + (r - 50) * 800, 100))

WindSpeedModel(f, r) ==
    Clamp(0, 4000,
          MathRound(60000 + Abs(f.pressure_lag1 - 101300) * 20
                    + f.seasonal_factor * 300 + Abs(f.daily_factor) * 200
                    + r * 600, 100))

\* Bernoulli: random < precipProb ? random * 8 : 0
PrecipitationModel(f, rOccur, rAmount) ==
    LET humidityFactor == Max(0, f.humidity_lag1 - 6000) * 10
        pressureFactor == Max(0, 101500 - f.pressure_lag1) * 5
        seasonalFactor == Max(0, f.seasonal_factor) * 200
    IN IF rOccur * 10000 < humidityFactor + pressureFactor + seasonalFactor
       THEN rAmount * 8 ELSE 0

CloudCoverModel(f, r) ==
    Clamp(0, 10000,
          MathRound((f.humidity_lag1 - 4000) * 120 + (101300 - f.pressure_lag1) * 250
                    + f.seasonal_factor * 1000 + (r - 50) * 2500, 100))

UVIndexModel(f, r) ==
    LET base == 60000 + f.seasonal_factor * 400 + f.daily_factor * 300
        cloudReduction == Max(0, f.humidity_lag1 - 5000) * 8
    IN Clamp(0, 1200, MathRound(Max(0, base - cloudReduction) + (r - 50) * 150, 100))

AQIModel(f, r) ==
    Clamp(0, 20000,
          MathRound(450000 + f.seasonal_factor * 2500
                    + (f.temperature_lag1 - 1500) * 80
                    + Max(0, 30 - f.hour) * 5000 + (r - 50) * 3000, 100))

----------------------------------------------------------------------------
(* WeatherMLModel: probabilities, risk and suitability *)

\* 100 percent, in 1/3000 of a percentage point
Full == 100 * 3000

\* a variant of the clamp that forgets the upper end: Math.max(0, x)
ClampProbabilityLowerOnly(x) == Max(0, x)

\* Math.min(100, Math.max(0, x)) on a probability
ClampProbability(x) == Min(Full, Max(0, x))

\* calculateProbabilities: fixed linear mappings of the raw quantities
calculateProbabilities(p) ==
    [rain |-> ClampProbability(24 * p.cloudCover + 12 * p.humidity - 40 * 3000
                               + 450 * p.precipitation),
     heavyRain |-> ClampProbability(540 * p.precipitation),
     extremeHeat |-> ClampProbability(120 * (p.temperature - 3200)),
     extremeCold |-> ClampProbability(180 * (500 - p.temperature)),
     highWind |-> ClampProbability(90 * (p.windSpeed - 2000)),
     highHumidity |-> ClampProbability(150 * (p.humidity - 8000)),
     uncomfortable |-> ClampProbability(20 * Abs(p.temperature - 2200)
                                        + 12 * Abs(p.humidity - 5000)
                                        + 15 * Max(0, p.windSpeed - 2500))]

\* calculateRiskAssessment: average of five factors, four levels
calculateRiskAssessment(probabilities) ==
    LET riskFactors == <<probabilities.extremeHeat, probabilities.extremeCold,
                         probabilities.heavyRain, probabilities.highWind,
                         probabilities.uncomfortable>>
        total == SumSeq(riskFactors)          \* avgRisk = total / 5
        level == IF total > 75 * 3000 * 5 THEN "extreme"
                 ELSE IF total > 50 * 3000 * 5 THEN "high"
                 ELSE IF total > 25 * 3000 * 5 THEN "medium" ELSE "low"
    IN [level |-> level, score |-> MathRound(total, 3000 * 5), factors |-> riskFactors]

\* scoreInRange(value, min, max), in 1/10000 of a point (value in hundredths)
scoreInRange(value, min, max) ==
    IF value >= min /\ value <= max THEN 100 * 10000
    ELSE LET distance == Min(Abs(value - min), Abs(value - max))
         IN Max(0, 100 * 10000 - distance * 300)

\* scoreMaxValue(value, max), in 1/10000 of a point
scoreMaxValue(value, max) ==
    IF value <= max THEN 100 * 10000
    ELSE Max(0, 100 * 10000 - (value - max) * 400)

\* preset.weights || the default weights
presetWeights(preset) ==
    IF preset.weights.def THEN preset.weights.v ELSE Weights(30, 20, 15, 25, 10)

\* a variant of the normalisation that divides by the sum of all five weights
normalisedWeightsOverAll(weights) ==
    LET wt == OrElse(weights.temp, 0)
        ww == OrElse(weights.wind, 0)
        wh == OrElse(weights.humidity, 0)
        wp == OrElse(weights.precipitation, 0)
        sum == wt + ww + wh + wp + OrElse(weights.air_quality, 0)
    IN [temp |-> wt, wind |-> ww, humidity |-> wh, precipitation |-> wp,
        divisor |-> IF sum # 0 THEN sum ELSE 100]

\* wTemp, wWind, wHumidity, wPrecip: each (weights.x || 0) over
\* (weatherWeightSum || 1), given as the four numerators and the common
\* divisor, in hundredths (the divisor 1 is 100)
normalisedWeights(weights) ==
    LET wt == OrElse(weights.temp, 0)
        ww == OrElse(weights.wind, 0)
        wh == OrElse(weights.humidity, 0)
        wp == OrElse(weights.precipitation, 0)
        weatherWeightSum == wt + ww + wh + wp
    IN [temp |-> wt, wind |-> ww, humidity |-> wh, precipitation |-> wp,
        divisor |-> IF weatherWeightSum # 0 THEN weatherWeightSum ELSE 100]

\* the four normalised weather weights applied to the four component
\* probabilities: Math.round(sum of prob_i * (w_i / (weatherWeightSum || 1)))
weatherScoreOf(tempProb, windProb, humidityProb, precipProb, weights) ==
    LET w == normalisedWeights(weights)
        weighted == tempProb * w.temp + windProb * w.wind + humidityProb * w.humidity
                    + precipProb * w.precipitation
    IN MathRound(weighted, w.divisor)

\* healthScore: clamp(round(100 - aqi / 500 * 100)), aqi in hundredths
healthScoreOf(aqi) == Max(0, Min(100, MathRound(500 * 100 - aqi, 500)))

\* riskScore: 100 when no candidate exceeds the floor, else
\* clamp(round(100 - average of the candidates above the floor));
\* candidates and floor in 1/unit of a percentage point
riskScoreOf(riskCandidates, floor, unit) ==
    LET significant == SelectSeq(riskCandidates, LAMBDA r : r > floor * unit)
    IN IF Len(significant) = 0 THEN 100
       ELSE Max(0, Min(100, MathRound(100 * unit * Len(significant) - SumSeq(significant),
                                      unit * Len(significant))))

\* a variant of the blend whose weights sum to 0.95 (weather 0.7)
blendMLShort(weatherScore, healthScore, riskScore) ==
    MathRound(70 * weatherScore + 20 * healthScore + 5 * riskScore, 100)

\* Math.round(weatherScore * 0.75 + healthScore * 0.2 + riskScore * 0.05)
blendML(weatherScore, healthScore, riskScore) ==
    MathRound(75 * weatherScore + 20 * healthScore + 5 * riskScore, 100)

\* a variant of the final clamp that forgets the lower end: Math.min(100, finalScore)
clampScoreUpperOnly(finalScore) == Min(100, finalScore)

\* Math.min(100, Math.max(0, finalScore))
clampScore(finalScore) == Min(100, Max(0, finalScore))

\* ranges (lines 241-247): preset.x || the default, in hundredths
presetRanges(preset) ==
    [tempMin |-> OrElse(preset.tempMin, 1800),
     tempMax |-> OrElse(preset.tempMax, 2600),
     windMax |-> OrElse(preset.windMax, 1500),
     humidityMax |-> OrElse(preset.humidityMax, 7000),
     precipMax |-> OrElse(preset.precipMax, 200)]

\* WeatherMLModel.calculateSuitabilityScore(predictions, preset):
\* the three components and the returned score, with the ranges and the
\* normalised weights it scored with
calculateSuitabilityScore(p, preset) ==
    LET weights == presetWeights(preset)
        ranges == presetRanges(preset)
        tempProb == MathRound(scoreInRange(p.temperature, ranges.tempMin, ranges.tempMax), 10000)
        windProb == MathRound(scoreMaxValue(p.windSpeed, ranges.windMax), 10000)
        humidityProb == MathRound(scoreMaxValue(p.humidity, ranges.humidityMax), 10000)
        precipProb == MathRound(scoreMaxValue(p.precipitation, ranges.precipMax), 10000)
        weatherScore == weatherScoreOf(tempProb, windProb, humidityProb, precipProb, weights)
        healthScore == healthScoreOf(p.aqi)
        riskScore == riskScoreOf(<<p.probabilities.extremeHeat, p.probabilities.extremeCold,
                                   p.probabilities.highWind, p.probabilities.uncomfortable>>,
                                 50, 3000)
    IN [weatherScore |-> weatherScore, healthScore |-> healthScore,
        riskScore |-> riskScore,
        score |-> clampScore(blendML(weatherScore, healthScore, riskScore)),
        ranges |-> ranges,
        components |-> [temp |-> tempProb, wind |-> windProb, humidity |-> humidityProb,
                        precipitation |-> precipProb],
        weights |-> normalisedWeights(weights)]

----------------------------------------------------------------------------
(* WeatherMLModel: health data, predict and the history buffer *)

getAQILevel(aqi) ==
    IF aqi <= 5000 THEN 1 ELSE IF aqi <= 10000 THEN 2 ELSE IF aqi <= 15000 THEN 3
    ELSE IF aqi <= 20000 THEN 4 ELSE IF aqi <= 30000 THEN 5 ELSE 6

getAQIStatus(aqi) ==
    <<"Good", "Moderate", "Unhealthy for Sensitive Groups", "Unhealthy",
      "Very Unhealthy", "Hazardous">>[getAQILevel(aqi)]

\* pm in 1/1000 (aqi in hundredths times 4 or 6)
getPMLevel(pm) ==
    IF pm <= 12000 THEN 1 ELSE IF pm <= 35000 THEN 2 ELSE IF pm <= 55000 THEN 3
    ELSE IF pm <= 150000 THEN 4 ELSE 5

\* calculateHealthData: values are Math.round of the formulas
calculateHealthData(p, draws) ==
    [aqi |-> [value |-> MathRound(p.aqi, 100), status |-> getAQIStatus(p.aqi),
              level |-> getAQILevel(p.aqi)],
     pm25 |-> [value |-> MathRound(p.aqi * 4 + draws["pm25"] * 50, 1000),
               level |-> getPMLevel(p.aqi * 4)],
     pm10 |-> [value |-> MathRound(p.aqi * 6 + draws["pm10"] * 100, 1000),
               level |-> getPMLevel(p.aqi * 6)],
     no2 |-> [value |-> MathRound(10000 + draws["no2"] * 400 + p.aqi, 1000), level |-> 2],
     o3 |-> [value |-> MathRound(3000 + p.uvIndex * 8 + draws["o3"] * 20, 100), level |-> 2],
     so2 |-> [value |-> MathRound(10000 + draws["so2"] * 300 + p.aqi, 2000), level |-> 1]]

\* a variant of the loop over the models that keeps a negative temperature
modelOutputsSignedTemperature(f, draws) ==
    [temperature |-> TemperatureModel(f, draws["temperature"]),
     humidity |-> Max(0, HumidityModel(f, draws["humidity"])),
     pressure |-> Max(0, PressureModel(f, draws["pressure"])),
     windSpeed |-> Max(0, WindSpeedModel(f, draws["windSpeed"])),
     precipitation |-> Max(0, PrecipitationModel(f, draws["precipOccur"], draws["precipAmount"])),
     cloudCover |-> Max(0, CloudCoverModel(f, draws["cloudCover"])),
     uvIndex |-> Max(0, UVIndexModel(f, draws["uvIndex"])),
     aqi |-> Max(0, AQIModel(f, draws["aqi"]))]

\* the loop of predict: predictions[key] = Math.max(0, model.predict(features))
modelOutputs(f, draws) ==
    [temperature |-> Max(0, TemperatureModel(f, draws["temperature"])),
     humidity |-> Max(0, HumidityModel(f, draws["humidity"])),
     pressure |-> Max(0, PressureModel(f, draws["pressure"])),
     windSpeed |-> Max(0, WindSpeedModel(f, draws["windSpeed"])),
     precipitation |-> Max(0, PrecipitationModel(f, draws["precipOccur"], draws["precipAmount"])),
     cloudCover |-> Max(0, CloudCoverModel(f, draws["cloudCover"])),
     uvIndex |-> Max(0, UVIndexModel(f, draws["uvIndex"])),
     aqi |-> Max(0, AQIModel(f, draws["aqi"]))]

\* the bundle predict returns for the given buffer, location, preset,
\* clock reading and random draws; id is the ordinal of the call
predictBundle(history, id, location, preset, clock, draws) ==
    LET hist == getHistoricalData(history)
        currentWeather == getLocationBasedDefaults(location, clock)
        features == prepareFeatures(currentWeather, hist, clock)
        raw == modelOutputs(features, draws)
        probabilities == calculateProbabilities(raw)
        withProb == [temperature |-> raw.temperature, humidity |-> raw.humidity,
                     pressure |-> raw.pressure, windSpeed |-> raw.windSpeed,
                     precipitation |-> raw.precipitation, cloudCover |-> raw.cloudCover,
                     uvIndex |-> raw.uvIndex, aqi |-> raw.aqi,
                     probabilities |-> probabilities]
    IN [id |-> id,
        features |-> features,
        temperature |-> raw.temperature,
        humidity |-> raw.humidity,
        pressure |-> raw.pressure,
        windSpeed |-> raw.windSpeed,
        precipitation |-> raw.precipitation,
        cloudCover |-> raw.cloudCover,
        uvIndex |-> raw.uvIndex,
        \* Math.max(0, Math.min(500, Math.round(predictions.aqi)))
        aqi |-> 100 * Max(0, Min(500, MathRound(raw.aqi, 100))),
        probabilities |-> probabilities,
        riskAssessment |-> calculateRiskAssessment(probabilities),
        suitabilityScore |-> calculateSuitabilityScore(withProb, preset).score,
        healthData |-> calculateHealthData(raw, draws)]

\* a variant of updateWeatherHistory that drops the oldest entry one push
\* too early (length >= maxHistorySize instead of length > maxHistorySize)
updateWeatherHistoryEarlyShift(history, weatherData) ==
    LET pushed == Append(history, weatherData)
    IN IF Len(pushed) >= maxHistorySize THEN Tail(pushed) ELSE pushed

\* updateWeatherHistory: push, then drop the oldest entry when over the bound
updateWeatherHistory(history, weatherData) ==
    LET pushed == Append(history, weatherData)
    IN IF Len(pushed) > maxHistorySize THEN Tail(pushed) ELSE pushed

\* the entry kept in the buffer: the fields of the bundle that are numbers
\* (features is the call's input, recorded in lastCall only)
historyEntry(b) ==
    [id |-> b.id, temperature |-> b.temperature, humidity |-> b.humidity,
     pressure |-> b.pressure, windSpeed |-> b.windSpeed,
     precipitation |-> b.precipitation, cloudCover |-> b.cloudCover,
     uvIndex |-> b.uvIndex, aqi |-> b.aqi, suitabilityScore |-> b.suitabilityScore]

NoCall == [op |-> "none", args |-> <<>>, ret |-> <<>>]

\* WeatherMLModel.predict(location, preset), the arguments, the clock
\* reading and the random draws taken from the given sets
PredictFrom(locations, presets, clocks, drawSets) ==
    /\ \E location \in locations, preset \in presets, clock \in clocks, draws \in drawSets :
          LET b == predictBundle(weatherHistory, predictCount + 1, location, preset, clock, draws)
          IN /\ weatherHistory' = updateWeatherHistory(weatherHistory, historyEntry(b))
             /\ lastCall' = [op |-> "predict",
                            args |-> [location |-> location, preset |-> preset],
                            ret |-> b]
    /\ predictCount' = predictCount + 1
    /\ UNCHANGED <<callLog, wizard, client>>

\* a long run of predict calls on one instance: the first MaxVariedCalls
\* calls vary, the later ones repeat one environment
Predict ==
    /\ predictCount < MaxPredictCalls
    /\ IF predictCount < MaxVariedCalls
       THEN PredictFrom(Locations, {EmptyPreset, PhotographyPreset},
                        Clocks, {Uniform(0), Uniform(99)})
       ELSE PredictFrom({DefaultLocation}, {EmptyPreset}, {MidClock}, {MidDraws})

----------------------------------------------------------------------------
(* generateRiskAssessment (start_backend.bat, lines 158-211)               *)
(*                                                                         *)
(* A probability set is [den |-> d, num |-> [condition |-> n]]: the        *)
(* probability of a condition is num[condition] / den percent.             *)

Conditions == {"rain", "heavy_rain", "very_hot", "very_cold", "high_wind", "uncomfortable"}

\* the order of Object.entries and of the rules
ConditionOrder == <<"rain", "heavy_rain", "very_hot", "very_cold", "high_wind", "uncomfortable">>

\* prob >= 30 -> High, prob >= 15 -> Moderate, else Low
riskLevelOf(n, d) ==
    IF n >= 30 * d THEN "High" ELSE IF n >= 15 * d THEN "Moderate" ELSE "Low"

\* WeatherProbabilityApp.getRiskClass(probability) (unnamed/part_001 lines
\* 624-628), the class of a probability card; probability is n / d
getRiskClass(n, d) ==
    IF n <= 15 * d THEN "risk-low"
    ELSE IF n <= 30 * d THEN "risk-moderate" ELSE "risk-high"

\* the rule of each condition: the probability above which it triggers
ruleThreshold(c) ==
    CASE c = "rain" -> 25
      [] c = "heavy_rain" -> 10
      [] c = "very_hot" -> 20
      [] c = "very_cold" -> 20
      [] c = "high_wind" -> 25
      [] c = "uncomfortable" -> 30

advisory(c) ==
    CASE c = "rain" -> "High chance of rain - bring waterproof clothing"
      [] c = "heavy_rain" -> "Risk of heavy rainfall - consider indoor alternatives"
      [] c = "very_hot" -> "Possible extreme heat - plan for shade and hydration"
      [] c = "very_cold" -> "Risk of very cold weather - dress warmly"
      [] c = "high_wind" -> "High wind probability - secure loose items"
      [] c = "uncomfortable" -> "High chance of uncomfortable conditions - plan accordingly"

Fallback == "Generally favorable weather conditions expected"

ruleTriggers(p, c) == p.num[c] > ruleThreshold(c) * p.den

\* a variant of the recommendations that pushes the fallback without
\* testing that the array is empty
recommendationsAlwaysFallback(p, initial) ==
    LET R[i \in 0..6] ==
            IF i = 0 THEN initial
            ELSE IF p.num[ConditionOrder[i]] > ruleThreshold(ConditionOrder[i]) * p.den
                 THEN Append(R[i - 1], advisory(ConditionOrder[i]))
                 ELSE R[i - 1]
    IN Append(R[6], Fallback)

\* the six if-statements, pushing onto the given array in rule order,
\* then the fallback when the array is empty
recommendationsFrom(p, initial) ==
    LET R[i \in 0..6] ==
            IF i = 0 THEN initial
            ELSE IF ruleTriggers(p, ConditionOrder[i])
                 THEN Append(R[i - 1], advisory(ConditionOrder[i]))
                 ELSE R[i - 1]
    IN IF Len(R[6]) = 0 THEN <<Fallback>> ELSE R[6]

\* the weight of each condition in the score, in tenths
scoreWeight(c) ==
    CASE c = "rain" -> 3
      [] c = "heavy_rain" -> 5
      [] c = "very_hot" -> 4
      [] c = "very_cold" -> 4
      [] c = "high_wind" -> 2
      [] c = "uncomfortable" -> 3

\* suitabilityScore after the clamp of line 203, as the fraction
\* num / den with den = 10 * p.den
clampedScore(p) ==
    LET penalty == SumSeq([i \in 1..6 |-> scoreWeight(ConditionOrder[i]) * p.num[ConditionOrder[i]]])
        den == 10 * p.den
    IN [num |-> Max(0, Min(100 * den, 100 * den - penalty)), den |-> den]

\* overall_risk, from the clamped score (line 209)
overallRiskOf(score) ==
    IF score.num > 75 * score.den THEN "Low"
    ELSE IF score.num > 50 * score.den THEN "Moderate" ELSE "High"

\* the body of generateRiskAssessment, the recommendations array starting
\* from the given content (const recommendations = [])
riskAssessmentFrom(p, initial) ==
    LET score == clampedScore(p)
    IN [risk_levels |-> [c \in DOMAIN p.num |-> riskLevelOf(p.num[c], p.den)],
        recommendations |-> recommendationsFrom(p, initial),
        \* Math.round(suitabilityScore * 10) / 10, in tenths
        suitability_score |-> MathRound(10 * score.num, score.den),
        overall_risk |-> overallRiskOf(score)]

\* a variant of generateRiskAssessment whose recommendations array is
\* shared by all calls: it starts from what the previous assessment left
generateRiskAssessmentSharedList(p) ==
    LET assessed == {i \in 1..Len(callLog) :
                        \/ callLog[i].op = "generateRiskAssessment"
                        \/ "risk_assessment" \in DOMAIN callLog[i].ret}
        last == CHOOSE i \in assessed : \A j \in assessed : j <= i
        left == IF callLog[last].op = "generateRiskAssessment"
                THEN callLog[last].ret.recommendations
                ELSE callLog[last].ret.risk_assessment.recommendations
    IN riskAssessmentFrom(p, IF assessed = {} THEN <<>> ELSE left)

generateRiskAssessment(p) == riskAssessmentFrom(p, <<>>)

----------------------------------------------------------------------------
(* calculateWeatherProbabilities (start_backend.bat, lines 46-156)         *)
(*                                                                         *)
(* A daily record is [year, month, day, T2M, T2M_MAX, T2M_MIN,             *)
(* PRECTOTCORR, WS10M, RH2M], the six measurements in tenths.              *)

\* a variant of the filter that compares the month only
filterTargetMonthOnly(data, targetMonth, targetDay) ==
    SelectSeq(data, LAMBDA r : r.month = targetMonth)

\* a variant of the caller's array in which the filter works in place
callerArrayFiltered(data, targetMonth, targetDay) ==
    SelectSeq(data, LAMBDA r : r.month = targetMonth /\ r.day = targetDay)

\* historicalData.filter(record => record.month === targetMonth && record.day === targetDay)
filterTarget(data, targetMonth, targetDay) ==
    SelectSeq(data, LAMBDA r : r.month = targetMonth /\ r.day = targetDay)

\* the array the caller passed, as it is after the filter call
\* (Array.prototype.filter builds a new array)
callerArrayAfter(data, targetMonth, targetDay) == data

\* largest r with r * r <= n, and smallest r with r * r >= n (n >= 0)
RECURSIVE SqrtSearch(_, _, _)
SqrtSearch(n, lo, hi) ==
    IF lo >= hi THEN lo
    ELSE LET mid == (lo + hi + 1) \div 2
         IN IF mid * mid <= n THEN SqrtSearch(n, mid, hi) ELSE SqrtSearch(n, lo, mid - 1)

FloorSqrt(n) == SqrtSearch(n, 0, Min(n, 46340))
CeilSqrt(n) == LET r == FloorSqrt(n) IN IF r * r = n THEN r ELSE r + 1

\* const mean = arr => sum / arr.length and const std = arr => sqrt(sum of
\* squared deviations / arr.length), kept exact:
\*   mean = total / n,  std = sqrt(spread) / n,  spread = n * sum(x^2) - total^2
statsOf(arr) ==
    LET n == Len(arr)
        total == SumSeq(arr)
        squares == SumSeq([i \in 1..n |-> arr[i] * arr[i]])
    IN [n |-> n, total |-> total, spread |-> n * squares - total * total]

\* x > mean + (kn / kd) * std
aboveThreshold(x, st, kn, kd) ==
    LET lhs == kd * (st.n * x - st.total)
    IN lhs > 0 /\ lhs * lhs > kn * kn * st.spread

\* x < mean - (kn / kd) * std
belowThreshold(x, st, kn, kd) ==
    LET lhs == kd * (st.total - st.n * x)
    IN lhs > 0 /\ lhs * lhs > kn * kn * st.spread

\* a variant of the upper threshold that leaves the deviation out
roundedUpperThresholdAtMean(st, kn, kd) ==
    FloorDiv(2 * kd * st.total + kd * st.n, 2 * kd * st.n)

\* Math.round((mean + (kn / kd) * std) * 10) / 10, in tenths
roundedUpperThreshold(st, kn, kd) ==
    FloorDiv(FloorSqrt(4 * kn * kn * st.spread) + 2 * kd * st.total + kd * st.n,
             2 * kd * st.n)

\* Math.round((mean - (kn / kd) * std) * 10) / 10, in tenths
roundedLowerThreshold(st, kn, kd) ==
    FloorDiv(2 * kd * st.total + kd * st.n - CeilSqrt(4 * kn * kn * st.spread),
             2 * kd * st.n)

\* (temp > 27 && humid > 70) || temp < 5 || temp > 35
isUncomfortable(r) == (r.T2M > 270 /\ r.RH2M > 700) \/ r.T2M < 50 \/ r.T2M > 350

\* the characters of n.toString().padStart(2, '0') for n >= 0
DigitChar(d) == <<"0", "1", "2", "3", "4", "5", "6", "7", "8", "9">>[d + 1]
RECURSIVE toDigits(_)
toDigits(n) == IF n < 10 THEN <<DigitChar(n)>>
               ELSE Append(toDigits(n \div 10), DigitChar(n % 10))
padStart2(n) == IF Len(toDigits(n)) < 2 THEN <<"0">> \o toDigits(n) ELSE toDigits(n)

\* a variant of the very-hot count whose threshold is mean - (kn / kd) * std
veryHotDaysBelowMean(targetData, kn, kd) ==
    LET n == Len(targetData)
        st == statsOf([i \in 1..n |-> targetData[i].T2M_MAX])
        lhs(x) == kd * (st.n * x - st.total)
    IN Len(SelectSeq(targetData,
                     LAMBDA r : lhs(r.T2M_MAX) >= 0
                                \/ lhs(r.T2M_MAX) * lhs(r.T2M_MAX) < kn * kn * st.spread))

\* veryHotDays (lines 78-81) with the multiplier kn / kd >= 0 in place of 1.5:
\* maxTemps.filter(t => t > maxTempMean + k * maxTempStd).length
veryHotDays(targetData, kn, kd) ==
    LET n == Len(targetData)
        maxStats == statsOf([i \in 1..n |-> targetData[i].T2M_MAX])
    IN Len(SelectSeq(targetData, LAMBDA r : aboveThreshold(r.T2M_MAX, maxStats, kn, kd)))

\* the probabilities object handed to generateRiskAssessment (lines 112-119):
\* unrounded, count / N * 100 as (100 * count) / N
unroundedProbabilities(targetData) ==
    LET n == Len(targetData)
        maxStats == statsOf([i \in 1..n |-> targetData[i].T2M_MAX])
        minStats == statsOf([i \in 1..n |-> targetData[i].T2M_MIN])
        windStats == statsOf([i \in 1..n |-> targetData[i].WS10M])
    IN [den |-> n,
        num |-> [rain |-> 100 * Len(SelectSeq(targetData, LAMBDA r : r.PRECTOTCORR > 10)),
                 heavy_rain |-> 100 * Len(SelectSeq(targetData, LAMBDA r : r.PRECTOTCORR > 100)),
                 very_hot |-> 100 * veryHotDays(targetData, 3, 2),
                 very_cold |-> 100 * Len(SelectSeq(targetData,
                                  LAMBDA r : belowThreshold(r.T2M_MIN, minStats, 3, 2))),
                 high_wind |-> 100 * Len(SelectSeq(targetData,
                                  LAMBDA r : aboveThreshold(r.WS10M, windStats, 1, 1))),
                 uncomfortable |-> 100 * Len(SelectSeq(targetData, isUncomfortable))]]

\* a variant of the rounding that truncates: Math.floor(probability * 10) / 10
roundProbabilityDown(n, d) == FloorDiv(10 * n, d)

\* Math.round(probability * 10) / 10, in tenths
roundProbability(n, d) == MathRound(10 * n, d)

calculateWeatherProbabilities(historicalData, targetMonth, targetDay) ==
    LET targetData == filterTarget(historicalData, targetMonth, targetDay)
        n == Len(targetData)
    IN IF n = 0 THEN [error |-> "No historical data available for this date"]
       ELSE
       LET field(name) == [i \in 1..n |-> targetData[i][name]]
           maxStats == statsOf(field("T2M_MAX"))
           minStats == statsOf(field("T2M_MIN"))
           windStats == statsOf(field("WS10M"))
           p == unroundedProbabilities(targetData)
           highHumidityDays == Len(SelectSeq(targetData, LAMBDA r : r.RH2M > 800))
       IN [location_stats |->
               [total_years |-> Cardinality({targetData[i].year : i \in 1..n}),
                total_records |-> n,
                date_analyzed |-> padStart2(targetMonth) \o <<"-">> \o padStart2(targetDay)],
           probabilities |->
               [rain_probability |-> roundProbability(p.num.rain, n),
                heavy_rain_probability |-> roundProbability(p.num.heavy_rain, n),
                very_hot_probability |-> roundProbability(p.num.very_hot, n),
                very_cold_probability |-> roundProbability(p.num.very_cold, n),
                high_wind_probability |-> roundProbability(p.num.high_wind, n),
                high_humidity_probability |-> roundProbability(100 * highHumidityDays, n),
                uncomfortable_probability |-> roundProbability(p.num.uncomfortable, n)],
           thresholds |->
               [very_hot_threshold |-> roundedUpperThreshold(maxStats, 3, 2),
                very_cold_threshold |-> roundedLowerThreshold(minStats, 3, 2),
                high_wind_threshold |-> roundedUpperThreshold(windStats, 1, 1),
                rain_threshold |-> 10,
                heavy_rain_threshold |-> 100,
                high_humidity_threshold |-> 800],
           historical_averages |->
               [avg_temperature |-> MathRound(SumSeq(field("T2M")), n),
                avg_max_temp |-> MathRound(maxStats.total, n),
                avg_min_temp |-> MathRound(minStats.total, n),
                \* two decimals, in hundredths
                avg_precipitation |-> MathRound(10 * SumSeq(field("PRECTOTCORR")), n),
                avg_wind_speed |-> MathRound(windStats.total, n),
                avg_humidity |-> MathRound(SumSeq(field("RH2M")), n)],
           risk_assessment |-> generateRiskAssessment(p)]

----------------------------------------------------------------------------
(* WeatherPredictionApp.calculateSuitabilityScore (app.js, lines 1038-1106) *)

\* Math.round(weatherScore * 0.75 + healthScore * 0.2 + riskScore * 0.05)
blendApp(weatherScore, healthScore, riskScore) ==
    MathRound(75 * weatherScore + 20 * healthScore + 5 * riskScore, 100)

\* typeof x === 'number' ? x : (overallProbability || 50)
numberOr(x, overallProbability) == IF x.def THEN x.v ELSE OrElse(overallProbability, 50)

\* mlScore: this.weatherData.mlPredictions.suitabilityScore when it is a number,
\* in hundredths;
\* wa: the weatherAnalysis argument; aqiValue: healthAnalysis.aqi.value;
\* probabilities: whole percentages; preset: the selected preset
appSuitabilityScore(mlScore, wa, aqiValue, probabilities, preset) ==
    LET weights == presetWeights(preset)
        tempProb == numberOr(wa.temperatureProbability, wa.overallProbability)
        precipProb == numberOr(wa.precipitationProbability, wa.overallProbability)
        windProb == numberOr(wa.windProbability, wa.overallProbability)
        cloudProb == numberOr(wa.cloudProbability, wa.overallProbability)
        humidityProb == IF wa.humidityProbability.def THEN wa.humidityProbability.v
                        ELSE cloudProb
        weatherScore == IF mlScore.def THEN MathRound(mlScore.v, 100)
                        ELSE weatherScoreOf(tempProb, windProb, humidityProb, precipProb, weights)
        aqiVal == IF aqiValue.def THEN aqiValue.v ELSE 50
        healthScore == healthScoreOf(100 * aqiVal)
        riskScore == riskScoreOf(<<probabilities.extremeHeat, probabilities.extremeCold,
                                   probabilities.highWind, probabilities.uncomfortable>>,
                                 30, 1)
        scores == [weatherScore |-> weatherScore, healthScore |-> healthScore,
                   riskScore |-> riskScore,
                   score |-> clampScore(blendApp(weatherScore, healthScore, riskScore))]
    \* the weights are normalised only when no ML score is given (line 1057)
    IN IF mlScore.def THEN scores ELSE scores @@ [weights |-> normalisedWeights(weights)]

----------------------------------------------------------------------------
(* Inputs of the calls *)

\* records of one table
MaxRecords == 4
\* years of a table that has one record per year on the target date
MaxYears == 20

Record(y, m, d, t, tmax, tmin, precip, wind, rh) ==
    [year |-> y, month |-> m, day |-> d, T2M |-> t, T2M_MAX |-> tmax,
     T2M_MIN |-> tmin, PRECTOTCORR |-> precip, WS10M |-> wind, RH2M |-> rh]

RecordTypes ==
    { Record(2001, 7, 4, 250, 300, 200, 0, 30, 600),     \* mild and dry
      Record(2002, 7, 4, 280, 300, 200, 10, 30, 800),    \* exactly 1.0 mm and 80 %
      Record(2003, 7, 4, 360, 420, 200, 101, 120, 810),  \* hot, windy, heavy rain
      Record(2003, 7, 4, 40, 300, -50, 100, 30, 600),    \* cold, exactly 10.0 mm
      Record(2005, 7, 4, 250, 301, 200, 0, 30, 600),     \* maximum 0.1 above
      Record(2004, 7, 5, 360, 450, -100, 200, 200, 900), \* the next day
      Record(2004, 6, 4, 360, 450, -100, 200, 200, 900) }\* the month before

\* n years of records on 4 July, the first k of them with 2.5 mm of rain
YearTable(n, k) ==
    [i \in 1..n |-> Record(2000 + i, 7, 4, 250, 300, 200, IF i <= k THEN 25 ELSE 0, 30, 600)]

Datasets ==
    UNION {[1..n -> RecordTypes] : n \in 0..MaxRecords}
    \cup {YearTable(n, k) : n \in 1..MaxYears, k \in 0..MaxYears}

TargetDates == {<<7, 4>>, <<7, 5>>, <<12, 25>>}

\* probability sets in tenths of a percentage point
ProbabilitySets ==
    {[den |-> 10,
      num |-> [rain |-> r, heavy_rain |-> h, very_hot |-> vh, very_cold |-> vc,
               high_wind |-> w, uncomfortable |-> u]] :
        r \in {0, 250, 251, 832, 1000}, h \in {0, 100, 101, 1000},
        vh \in {0, 200, 201, 1000}, vc \in {0, 200, 201},
        w \in {0, 250, 251}, u \in {0, 300, 301, 1000}}

\* raw quantities of a prediction, in hundredths
PredictionGrid ==
    {[temperature |-> t, humidity |-> h, windSpeed |-> w, precipitation |-> p,
      cloudCover |-> c] :
        t \in {0, 500, 2200, 3200, 4500}, h \in {1500, 5000, 8000, 9500},
        w \in {0, 2000, 2500, 4000}, p \in {0, 1, 792}, c \in {0, 5000, 10000}}

\* risk probabilities of a prediction, in 1/3000 of a percentage point
RiskVector(heat, cold, wind, unc) ==
    [extremeHeat |-> heat * 3000, extremeCold |-> cold * 3000,
     highWind |-> wind * 3000, uncomfortable |-> unc * 3000]

RiskVectors == {RiskVector(0, 0, 0, 0), RiskVector(60, 0, 0, 50),
                RiskVector(0, 100, 100, 100), RiskVector(51, 30, 0, 31)}

ScoreGrid ==
    {[temperature |-> t, windSpeed |-> w, humidity |-> h, precipitation |-> p,
      aqi |-> a, probabilities |-> rv] :
        t \in {-200, 0, 2200, 4600}, w \in {0, 3000, 4000}, h \in {1500, 8500, 9500},
        p \in {0, 800, 1700}, a \in {0, 6000, 30000, 60000}, rv \in RiskVectors}

WithWeights(w) == [EmptyPreset EXCEPT !.weights = SomeWeights(w)]

\* presets with weights that are negative, that sum to zero, to more than 1
\* or to less than 0, and a preset with one weight missing
OddPresets ==
    { WithWeights(Weights(100, -100, 0, 0, 10)),
      WithWeights(Weights(-50, 150, 0, 0, 10)),
      WithWeights(Weights(90, 80, 70, 60, 10)),
      WithWeights(Weights(-30, -20, 0, 0, 0)),
      WithWeights(Weights(0, 0, 0, 0, 100)),
      WithWeights([Weights(30, 20, 15, 25, 10) EXCEPT !.wind = Undefined]) }

\* arguments of the app's calculateSuitabilityScore: whole percentages
Analysis(t, p, w, c, h, o) ==
    [temperatureProbability |-> t, precipitationProbability |-> p,
     windProbability |-> w, cloudProbability |-> c, humidityProbability |-> h,
     overallProbability |-> o]

Analyses ==
    { Analysis(Num(t), Num(p), Num(w), Num(c), Undefined, Num(t)) :
        t \in {0, 40, 100}, p \in {0, 40, 100}, w \in {40, 100}, c \in {0, 40, 100} }
    \cup { Analysis(Undefined, Undefined, Undefined, Undefined, Undefined, Undefined),
           Analysis(Undefined, Num(100), Undefined, Num(100), Num(0), Num(80)) }

AppRisks ==
    { [extremeHeat |-> 0, extremeCold |-> 0, highWind |-> 0, uncomfortable |-> 0],
      [extremeHeat |-> 60, extremeCold |-> 30, highWind |-> 0, uncomfortable |-> 0],
      [extremeHeat |-> 31, extremeCold |-> 0, highWind |-> 100, uncomfortable |-> 100] }

----------------------------------------------------------------------------
(* Moving averages: smoothSeries of generateSimulatedWeatherData           *)
(* (weather_ml_integration.js lines 528-537) and smooth of                 *)
(* prepareChartData (app.js lines 1138-1149), both with window = 3, so     *)
(* half = Math.floor(window / 2) = 1.  Positions are 1..Len(arr).          *)

\* a variant of smoothSeries that divides by the window size
smoothSeriesFixedDivisor(arr, key) ==
    [i \in 1..Len(arr) |->
        [sum |-> SumSeq([k \in 1..Cardinality({j \in (i - 1)..(i + 1) : j >= 1 /\ j <= Len(arr)}) |->
                            arr[Max(1, i - 1) + k - 1][key]]),
         count |-> 3]]

\* smoothSeries(arr, key, 3): at each position sum / count over the
\* positions j = i - half .. i + half with j >= 0 && j < arr.length, given
\* as the fraction [sum, count]
smoothSeries(arr, key) ==
    [i \in 1..Len(arr) |->
        LET count == Cardinality({j \in (i - 1)..(i + 1) : j >= 1 /\ j <= Len(arr)})
        IN [sum |-> SumSeq([k \in 1..count |-> arr[Max(1, i - 1) + k - 1][key]]),
            count |-> count]]

\* smooth(arr, 3): the same sums and counts, each mean rounded to one
\* decimal, Math.round((sum / count) * 10) / 10; arr and result in tenths
smooth(arr) ==
    [i \in 1..Len(arr) |->
        LET count == Cardinality({j \in (i - 1)..(i + 1) : j >= 1 /\ j <= Len(arr)})
        IN MathRound(SumSeq([k \in 1..count |-> arr[Max(1, i - 1) + k - 1]]), count)]

\* series of days with two channels, in tenths
MaxSeries == 4
SeriesInputs ==
    UNION {[1..n -> [temperature : {100, 115, 131}, humidity : {500, 800}]] :
              n \in 1..MaxSeries}

----------------------------------------------------------------------------
(* Quantities that may be NaN.  Every operation of the clamped outputs     *)
(* (+ - * /, Math.abs, Math.round, Math.max, Math.min) returns NaN when an *)
(* operand is NaN: Math.min(100, Math.max(0, NaN)) is NaN.                 *)

NotANumber == [nan |-> TRUE, v |-> 0]
Number(x) == [nan |-> FALSE, v |-> x]

\* the value of an expression computed from the given quantities, which is
\* value when none of them is NaN
NaNIfAny(quantities, value) ==
    IF \E q \in quantities : q.nan THEN NotANumber ELSE Number(value)

\* a record of numbers with one field replaced by NaN
WithNaN(record, field) ==
    [f \in DOMAIN record |-> IF f = field THEN NotANumber ELSE Number(record[f])]

----------------------------------------------------------------------------
(* JavaScript numbers: IEEE 754 binary64, round to nearest, ties to even.  *)
(* A positive double is m * 2^e with m a natural number of 53 bits; the    *)
(* values modelled are sums and means of a few positive decimals, far from *)
(* overflow and underflow.                                                 *)

\* natural numbers as bit sequences, most significant bit first; <<>> is 0
Zeros(k) == [i \in 1..k |-> 0]

RECURSIVE StripZeros(_)
StripZeros(bits) ==
    IF bits = <<>> \/ bits[1] = 1 THEN bits ELSE StripZeros(Tail(bits))

RECURSIVE BitsOf(_)
BitsOf(k) == IF k = 0 THEN <<>> ELSE Append(BitsOf(k \div 2), k % 2)

\* a + b; the carry into bit i comes from the nearest later position where
\* both bits are 1, when every position in between has exactly one bit 1
AddBits(a, b) ==
    LET L == Max(Len(a), Len(b)) + 1
        A == Zeros(L - Len(a)) \o a
        B == Zeros(L - Len(b)) \o b
        carry(i) ==
            IF \E j \in i..L : /\ A[j] + B[j] = 2
                                /\ \A k \in i..(j - 1) : A[k] + B[k] = 1
            THEN 1 ELSE 0
    IN StripZeros([i \in 1..L |-> (A[i] + B[i] + carry(i + 1)) % 2])

\* 2^k modulo n, by halving k
RECURSIVE PowerOfTwoMod(_, _)
PowerOfTwoMod(k, n) ==
    IF k = 0 THEN 1 % n
    ELSE LET h == PowerOfTwoMod(k \div 2, n)
         IN IF k % 2 = 0 THEN (h * h) % n ELSE (2 * h * h) % n

\* the number a[lo..hi] modulo n, by halving the range
RECURSIVE BitsMod(_, _, _, _)
BitsMod(a, lo, hi, n) ==
    IF lo > hi THEN 0
    ELSE IF lo = hi THEN a[lo] % n
    ELSE LET mid == (lo + hi) \div 2
         IN (BitsMod(a, lo, mid, n) * PowerOfTwoMod(hi - mid, n) + BitsMod(a, mid + 1, hi, n)) % n

\* floor(a / n) and whether a remainder is left, by long division: the
\* remainder carried into bit i is the number a[1..i-1] modulo n
DivBits(a, n) ==
    LET L == Len(a)
        rem(i) == BitsMod(a, 1, i, n)
    IN [quotient |-> StripZeros([i \in 1..L |-> (2 * rem(i - 1) + a[i]) \div n]),
        inexact |-> rem(L) # 0]

\* bits of the significand of a double
Precision == 53

ZeroDouble == [nan |-> FALSE, m |-> <<>>, e |-> 0]
NaN == [nan |-> TRUE, m |-> <<>>, e |-> 0]

\* the double nearest to bits * 2^e (plus a fraction of the last bit when
\* inexact), the even one of two nearest
RoundToDouble(bits, e, inexact) ==
    LET L == Len(bits)
        keep == SubSeq(bits, 1, Precision)
        half == bits[Precision + 1] = 1
        below == inexact \/ \E i \in (Precision + 2)..L : bits[i] = 1
        up == AddBits(keep, <<1>>)
    IN IF L = 0 THEN ZeroDouble
       ELSE IF L <= Precision
            THEN [nan |-> FALSE, m |-> bits \o Zeros(Precision - L), e |-> e - (Precision - L)]
       ELSE IF ~(half /\ (below \/ keep[Precision] = 1))
            THEN [nan |-> FALSE, m |-> keep, e |-> e + (L - Precision)]
       ELSE IF Len(up) = Precision
            THEN [nan |-> FALSE, m |-> up, e |-> e + (L - Precision)]
       ELSE [nan |-> FALSE, m |-> SubSeq(up, 1, Precision), e |-> e + (L - Precision) + 1]

\* x + y for doubles x, y >= 0
DoubleAdd(x, y) ==
    LET e == Min(x.e, y.e)
    IN IF x.nan \/ y.nan THEN NaN
       ELSE IF x.m = <<>> THEN y
       ELSE IF y.m = <<>> THEN x
       ELSE RoundToDouble(AddBits(x.m \o Zeros(x.e - e), y.m \o Zeros(y.e - e)), e, FALSE)

\* x / n for a double x >= 0 and an integer 0 <= n < 256; 0 / 0 is NaN
DoubleDivide(x, n) ==
    LET d == DivBits(x.m \o Zeros(10), n)
    IN IF x.nan \/ (x.m = <<>> /\ n = 0) THEN NaN
       ELSE IF x.m = <<>> THEN ZeroDouble
       ELSE RoundToDouble(d.quotient, x.e - 10, d.inexact)

\* the double a decimal with one fractional digit is read as: t / 10
DoubleOfTenths(t) == DoubleDivide(RoundToDouble(BitsOf(t), 0, FALSE), 10)

\* arr.reduce((a, b) => a + b, 0)
RECURSIVE DoubleSum(_)
DoubleSum(arr) ==
    IF arr = <<>> THEN ZeroDouble
    ELSE DoubleAdd(DoubleSum(SubSeq(arr, 1, Len(arr) - 1)), arr[Len(arr)])

----------------------------------------------------------------------------
(* The statistics helpers *)

\* mean (start_backend.bat line 65):
\* arr => arr.reduce((a, b) => a + b, 0) / arr.length
mean(arr) == DoubleDivide(DoubleSum(arr), Len(arr))

\* std (lines 66-69):
\*   const m = mean(arr);
\*   return Math.sqrt(arr.reduce((sq, n) => sq + Math.pow(n - m, 2), 0) / arr.length);
\* given as the class of its value.  m is NaN for an empty array and so is
\* the result.  Otherwise n - m is 0 exactly when n = m, the square of a
\* non-zero difference of the doubles modelled does not underflow, a sum of
\* squares is 0 only when each is, and the division by the length and the
\* square root keep 0 and keep a positive number positive.
std(arr) ==
    IF mean(arr).nan THEN "NaN"
    ELSE IF \A i \in 1..Len(arr) : arr[i] = mean(arr) THEN "zero" ELSE "positive"

\* calculateStats (unnamed/part_001 lines 1223-1231); the mean and the
\* standard deviation are computed as in the engine
calculateStats(data) ==
    IF data = <<>> THEN [mean |-> ZeroDouble, std |-> "zero"]
    ELSE [mean |-> mean(data), std |-> std(data)]

\* calculateProbability (unnamed/part_001 lines 1209-1221), data and
\* threshold in tenths
calculateProbability(data, threshold, operator) ==
    LET counted(value) ==
            \/ operator = ">" /\ value > threshold
            \/ operator = "<" /\ value < threshold
            \/ operator = ">=" /\ value >= threshold
            \/ operator = "<=" /\ value <= threshold
    IN IF data = <<>> THEN 0
       ELSE MathRound(100 * Len(SelectSeq(data, counted)), Len(data))

\* samples handed to the helpers, in tenths
MaxSamples == 3
Samples == UNION {[1..n -> {1, 11, 253, 301}] : n \in 0..MaxSamples}

\* slices of records on 4 July that differ in their maximum temperature
MaxTemps == {300, 310, 350, 420}

HotSlices ==
    UNION {[1..n -> {Record(2001, 7, 4, 250, t, 200, 0, 30, 600) : t \in MaxTemps}] :
              n \in 1..MaxRecords}

\* threshold multipliers k = kn / kd, in increasing order
Multipliers == <<[kn |-> 0, kd |-> 1], [kn |-> 1, kd |-> 2], [kn |-> 1, kd |-> 1],
                 [kn |-> 3, kd |-> 2], [kn |-> 2, kd |-> 1]>>

----------------------------------------------------------------------------
(* WeatherProbabilityApp (src/unnamed/part_001): analyzeWeather, the       *)
(* request cache and the backend                                           *)
(*                                                                         *)
(* Time counts minutes.  A location is one of the preset cities or null; a *)
(* date is the string that toISOString().split('T')[0] gives for it.  An   *)
(* invocation of analyzeWeather in flight is suspended at the fetch of     *)
(* analyzeWithNASAData or at the timer of analyzeWithFallbackData.  The    *)
(* record also keeps what an observer of the page sees: the invocations    *)
(* made and how each one ended.                                            *)

\* analyzeWeather invocations made on one page
MaxInvocations == 2
\* minutes the page is observed for
MaxClock == 5

\* this.cacheTimeout = 5 * 60 * 1000, in minutes
cacheTimeout == 5

\* entries of this.locations: lat and lon in 1/10000 of a degree
ClientLocations ==
    { [name |-> "New York, NY", lat |-> 407128, lon |-> -740060],
      [name |-> "Phoenix, AZ", lat |-> 334484, lon |-> -1120740] }

ClientDates == {"2026-07-04", "2026-12-25"}

NoLocation == [name |-> "null", lat |-> 0, lon |-> 0]
NoResults == [data_source |-> "null"]

\* the constructor and the synchronous part of init(): the default date is
\* set and the connectivity test of loadWeatherData is in flight
NewClient ==
    [selectedLocation |-> NoLocation, selectedDate |-> "2026-07-04",
     backendAvailable |-> "undefined", startup |-> "fetching",
     requestCache |-> [k \in {} |-> NoResults],
     currentResults |-> NoResults, displayed |-> NoResults,
     inFlight |-> <<>>,
     \* the environment: the backend answers requests or not, the clock
     reachable |-> TRUE, now |-> 0,
     \* what was observed: one entry per invocation
     invocations |-> <<>>]

\* `${lat}_${lon}_${dateString}`
cacheKeyOf(location, date) == <<location.lat, location.lon, date>>

\* this.requestCache.has(cacheKey) && Date.now() - cached.timestamp < this.cacheTimeout
\* with the comparison <= instead
isFreshInclusive(c, key) ==
    key \in DOMAIN c.requestCache /\ c.now - c.requestCache[key].timestamp <= cacheTimeout

isFresh(c, key) ==
    key \in DOMAIN c.requestCache /\ c.now - c.requestCache[key].timestamp < cacheTimeout

\* this.requestCache.set(cacheKey, {data, timestamp: Date.now()})
cacheSet(c, key, data) ==
    [k \in DOMAIN c.requestCache \cup {key} |->
        IF k = key THEN [data |-> data, timestamp |-> c.now] ELSE c.requestCache[k]]

\* transformNASAResponse(apiData): the name is the one selected now, the
\* rest is the backend's answer to the request
transformNASAResponse(c, key) ==
    [location |-> c.selectedLocation.name, coordinates |-> <<key[1], key[2]>>,
     date |-> key[3], data_source |-> "NASA POWER (Live Data)"]

\* the object analyzeWithFallbackData returns once its timer has fired
fallbackResults(c) ==
    [location |-> c.selectedLocation.name,
     coordinates |-> <<c.selectedLocation.lat, c.selectedLocation.lon>>,
     date |-> c.selectedDate, data_source |-> "Sample Data (Fallback Mode)"]

\* this.currentResults = results; this.displayResults(results), and the end
\* of invocation id as observed
completeWith(c, id, results) ==
    [c EXCEPT !.currentResults = results, !.displayed = results,
              !.invocations[id].outcome = "results", !.invocations[id].results = results]

\* the catch block of analyzeWeather: showError
failWith(c, id) == [c EXCEPT !.invocations[id].outcome = "error"]

WithoutRequest(c, i) ==
    [c EXCEPT !.inFlight = SubSeq(@, 1, i - 1) \o SubSeq(@, i + 1, Len(@))]

OnlyClient == UNCHANGED <<weatherHistory, predictCount, lastCall, callLog, wizard>>

\* loadWeatherData: the connectivity test is answered, or fails
LoadWeatherData ==
    /\ client.startup = "fetching"
    /\ client' = [client EXCEPT !.startup = "done",
                                !.backendAvailable = IF client.reachable THEN "true" ELSE "false"]
    /\ OnlyClient

\* the backend stops or starts
BackendChanges ==
    /\ client' = [client EXCEPT !.reachable = ~@]
    /\ OnlyClient

\* a minute passes; the clock is read against the timestamps of the cache
\* only, so time is counted from the first entry
Tick ==
    /\ client.now < MaxClock
    /\ DOMAIN client.requestCache # {}
    /\ client' = [client EXCEPT !.now = @ + 1]
    /\ OnlyClient

\* handleLocationChange(locationKey) for a key of this.locations
HandleLocationChange ==
    /\ \E location \in ClientLocations :
          client' = [client EXCEPT !.selectedLocation = location]
    /\ OnlyClient

HandleDateChange ==
    /\ \E date \in ClientDates :
          client' = [client EXCEPT !.selectedDate = date]
    /\ OnlyClient

\* analyzeWeather up to its first suspension; without a location it shows
\* an error and returns
ClientAnalyzeWeather ==
    /\ Len(client.invocations) < MaxInvocations
    /\ client.selectedLocation # NoLocation
    /\ LET id == Len(client.invocations) + 1
           key == cacheKeyOf(client.selectedLocation, client.selectedDate)
           invoked == [client EXCEPT !.invocations =
                          Append(@, [key |-> key, unreachable |-> ~client.reachable,
                                     overlaps |-> client.inFlight # <<>>,
                                     path |-> IF client.backendAvailable # "true" THEN "timer"
                                              ELSE IF isFresh(client, key) THEN "cache"
                                              ELSE "fetch",
                                     outcome |-> "pending", results |-> NoResults])]
       IN client' =
            IF client.backendAvailable = "true"
            THEN IF isFresh(client, key)
                 THEN completeWith(invoked, id, client.requestCache[key].data)
                 ELSE [invoked EXCEPT !.inFlight = Append(@, [id |-> id, await |-> "fetch",
                                                                key |-> key])]
            ELSE [invoked EXCEPT !.inFlight = Append(@, [id |-> id, await |-> "timer",
                                                           key |-> key])]
    /\ OnlyClient

\* the fetch of analyzeWithNASAData settles: rejected when the backend is not
\* reachable, else answered with response.ok or with an error status
BackendResponds ==
    /\ \E i \in 1..Len(client.inFlight), ok \in BOOLEAN :
         LET r == client.inFlight[i]
             c == WithoutRequest(client, i)
         IN /\ r.await = "fetch"
            /\ client' =
                 IF client.reachable /\ ok /\ client.selectedLocation # NoLocation
                 THEN LET results == transformNASAResponse(c, r.key)
                      IN [completeWith(c, r.id, results)
                             EXCEPT !.requestCache = cacheSet(c, r.key, results)]
                 ELSE failWith(c, r.id)
    /\ OnlyClient

\* the 1500 ms timer of analyzeWithFallbackData fires (timers of equal delay
\* fire in the order they were set)
FallbackTimerFires ==
    /\ \E i \in 1..Len(client.inFlight) :
         LET r == client.inFlight[i]
             c == WithoutRequest(client, i)
         IN /\ r.await = "timer"
            /\ \A j \in 1..(i - 1) : client.inFlight[j].await # "timer"
            /\ client' =
                 IF client.selectedLocation # NoLocation
                 THEN completeWith(c, r.id, fallbackResults(c))
                 ELSE failWith(c, r.id)
    /\ OnlyClient

----------------------------------------------------------------------------
(* WeatherPredictionApp (src/app.js): the five-step wizard                 *)
(*                                                                         *)
(* A field that holds null or an object is "null" or "set"; a property     *)
(* missing from config.presets is "undefined".  An analysis in flight is   *)
(* an invocation of analyzeWeather suspended at an await that yields to    *)
(* the event loop (a timer or a fetch): [pc, located, score].  Awaits on   *)
(* already settled promises let no handler run in between, so they are not *)
(* suspension points.                                                      *)

\* analyzeWeather invocations in flight at one time
MaxAnalyses == 1

PresetNames == {"beach", "custom"}
ModeNames == {"destination", "travel"}

\* the constructor; mlLoaded: weather_ml_integration.js has put
\* generateSimulatedWeatherData and generateSimulatedHealthData on window
NewWizard(mlLoaded) ==
    [currentStep |-> 1, selectedPreset |-> "null", customPreset |-> "null",
     selectedMode |-> "null",
     locations |-> [start |-> "null", destination |-> "null"],
     map |-> "null", mapTimer |-> FALSE,
     weatherData |-> "null", healthData |-> "null",
     dateInputs |-> [target |-> "", range |-> ""],
     mlLoaded |-> mlLoaded, analyses |-> <<>>]

\* this.selectedPreset === 'custom' ? this.customPreset : this.config.presets[this.selectedPreset]
presetOf(w) ==
    IF w.selectedPreset = "custom" THEN w.customPreset
    ELSE IF w.selectedPreset = "null" THEN "undefined" ELSE "set"

\* this.locations.destination || this.locations.start
locationOf(w) ==
    IF w.locations.destination # "null" THEN w.locations.destination ELSE w.locations.start

showStep(w, stepNumber) ==
    IF stepNumber = 3 THEN [w EXCEPT !.mapTimer = TRUE] ELSE w

\* validateCurrentStep: whether the step is valid, and the instance after it
validateCurrentStep(w) ==
    CASE w.currentStep = 1 ->
           IF w.selectedPreset = "null" THEN [ok |-> FALSE, wizard |-> w]
           ELSE IF w.selectedPreset = "custom"
                THEN [ok |-> TRUE, wizard |-> [w EXCEPT !.customPreset = "set"]]
                ELSE [ok |-> TRUE, wizard |-> w]
      [] w.currentStep = 2 -> [ok |-> w.selectedMode # "null", wizard |-> w]
      [] w.currentStep = 3 ->
           [ok |-> /\ ~(w.selectedMode = "destination" /\ w.locations.destination = "null")
                   /\ ~(w.selectedMode = "travel"
                        /\ (w.locations.start = "null" \/ w.locations.destination = "null")),
            wizard |-> w]
      [] w.currentStep = 4 ->
           [ok |-> IF w.selectedMode = "destination" THEN w.dateInputs.target # ""
                   ELSE w.dateInputs.range # "",
            wizard |-> w]
      [] OTHER -> [ok |-> TRUE, wizard |-> w]

nextStep(w) ==
    LET v == validateCurrentStep(w)
    IN IF ~v.ok THEN v.wizard
       ELSE IF v.wizard.currentStep < 5
            THEN showStep([v.wizard EXCEPT !.currentStep = @ + 1], v.wizard.currentStep + 1)
            ELSE v.wizard

prevStep(w) ==
    IF w.currentStep > 1 THEN showStep([w EXCEPT !.currentStep = @ - 1], w.currentStep - 1)
    ELSE w

\* selectLocationOnMap(e, displayName, searchType) with e.latlng present
selectLocationOnMap(w, searchType) ==
    IF w.map = "null" THEN w
    ELSE IF w.selectedMode = "destination"
         THEN [w EXCEPT !.locations.destination = "set"]
    ELSE IF w.selectedMode = "travel"
         THEN IF searchType = "start" \/ (w.locations.start = "null" /\ searchType = "null")
              THEN [w EXCEPT !.locations.start = "set"]
              ELSE IF searchType = "dest"
                      \/ (w.locations.destination = "null" /\ w.locations.start # "null")
                   THEN [w EXCEPT !.locations.destination = "set"]
                   ELSE w
    ELSE w

startOver(w) ==
    showStep([w EXCEPT !.currentStep = 1, !.selectedPreset = "null",
                       !.customPreset = "null", !.selectedMode = "null",
                       !.locations = [start |-> "null", destination |-> "null"],
                       !.weatherData = "null", !.healthData = "null",
                       !.dateInputs = [target |-> "", range |-> ""]], 1)

showResults(w) == showStep([w EXCEPT !.currentStep = 5], 5)

\* The outcomes of a stretch of analyzeWeather between two suspensions: the
\* instance after it, and the analysis if it is suspended again (none when
\* it has ended, in showResults or in the catch block).
Suspended(w, pc, located, score) ==
    [wizard |-> w, pending |-> <<[pc |-> pc, located |-> located, score |-> score]>>]
Ended(w) == [wizard |-> w, pending |-> <<>>]

\* processWeatherData .. getEnhancedAIRecommendation up to its first await;
\* the suitability score is below 50 ("low") or not ("high")
processAndRecommend(w) ==
    IF w.weatherData = "null" \/ presetOf(w) # "set" \/ w.healthData = "null"
    THEN {Ended(w)}
    ELSE {IF locationOf(w) = "set"
          THEN Suspended(w, "geminiFetch", TRUE, score)
          ELSE Suspended(w, "recommendationTimer", FALSE, score) : score \in {"low", "high"}}

fetchHealthData(w) ==
    IF w.mlLoaded /\ locationOf(w) = "set"
    THEN processAndRecommend([w EXCEPT !.healthData = "set"])
    ELSE {Suspended(w, "healthTimer", locationOf(w) = "set", "none")}

fetchWeatherData(w) ==
    IF w.mlLoaded /\ locationOf(w) = "set"
    THEN fetchHealthData([w EXCEPT !.weatherData = "set"])
    ELSE {Suspended(w, "weatherTimer", locationOf(w) = "set", "none")}

\* the stretch that follows the suspension of analysis a
resume(w, a) ==
    CASE a.pc = "weatherTimer" ->
           IF a.located THEN fetchHealthData([w EXCEPT !.weatherData = "set"]) ELSE {Ended(w)}
      [] a.pc = "healthTimer" ->
           IF a.located THEN processAndRecommend([w EXCEPT !.healthData = "set"])
           ELSE {Ended(w)}
      [] a.pc = "geminiFetch" ->
           {Ended(showResults(w)), Suspended(w, "recommendationTimer", a.located, a.score)}
      [] a.pc = "recommendationTimer" ->
           \* generateFallbackRecommendation reads preset.name for scores >= 50 only
           IF a.score = "high" /\ presetOf(w) # "set" THEN {Ended(w)}
           ELSE {Ended(showResults(w))}

WithoutAnalysis(w, i) ==
    [w EXCEPT !.analyses = SubSeq(@, 1, i - 1) \o SubSeq(@, i + 1, Len(@))]

OnlyWizard == UNCHANGED <<weatherHistory, predictCount, lastCall, callLog, client>>

SelectPreset ==
    /\ \E presetType \in PresetNames : wizard' = [wizard EXCEPT !.selectedPreset = presetType]
    /\ OnlyWizard

SelectMode ==
    /\ \E mode \in ModeNames : wizard' = [wizard EXCEPT !.selectedMode = mode]
    /\ OnlyWizard

\* the timer of showStep(3)
InitializeMap ==
    /\ wizard.mapTimer
    /\ wizard' = [wizard EXCEPT !.mapTimer = FALSE, !.map = "set"]
    /\ OnlyWizard

SelectLocationOnMap ==
    /\ wizard.map # "null"
    /\ \E searchType \in {"null", "start", "dest"} :
          wizard' = selectLocationOnMap(wizard, searchType)
    /\ OnlyWizard

\* the user fills the date picker that the mode shows
EnterDates ==
    /\ wizard.currentStep = 4
    /\ wizard' = IF wizard.selectedMode = "travel"
                 THEN [wizard EXCEPT !.dateInputs.range = "filled"]
                 ELSE [wizard EXCEPT !.dateInputs.target = "filled"]
    /\ OnlyWizard

NextStep == wizard' = nextStep(wizard) /\ OnlyWizard
PrevStep == wizard' = prevStep(wizard) /\ OnlyWizard
StartOver == wizard' = startOver(wizard) /\ OnlyWizard

\* analyzeWeather up to its first suspension
AnalyzeWeather ==
    /\ Len(wizard.analyses) < MaxAnalyses
    /\ \E o \in fetchWeatherData(wizard) :
          wizard' = [o.wizard EXCEPT !.analyses = @ \o o.pending]
    /\ OnlyWizard

\* a timer or a fetch of an analysis in flight completes
AnalysisResumes ==
    /\ \E i \in 1..Len(wizard.analyses) :
         \E o \in resume(WithoutAnalysis(wizard, i), wizard.analyses[i]) :
            wizard' = [o.wizard EXCEPT !.analyses = @ \o o.pending]
    /\ OnlyWizard

InitWizard ==
    /\ weatherHistory = <<>>
    /\ predictCount = 0
    /\ lastCall = NoCall
    /\ callLog = <<>>
    /\ wizard \in {NewWizard(mlLoaded) : mlLoaded \in BOOLEAN}
    /\ client = NewClient

NextWizard ==
    \/ SelectPreset \/ SelectMode \/ InitializeMap \/ SelectLocationOnMap
    \/ EnterDates \/ NextStep \/ PrevStep \/ StartOver
    \/ AnalyzeWeather \/ AnalysisResumes

SpecWizard == InitWizard /\ [][NextWizard]_vars

\* WeatherProbabilityApp on its page
InitClient ==
    /\ weatherHistory = <<>>
    /\ predictCount = 0
    /\ lastCall = NoCall
    /\ callLog = <<>>
    /\ wizard = NewWizard(TRUE)
    /\ client \in {[NewClient EXCEPT !.reachable = up] : up \in BOOLEAN}

NextClient ==
    \/ LoadWeatherData \/ BackendChanges \/ Tick
    \/ HandleLocationChange \/ HandleDateChange
    \/ ClientAnalyzeWeather \/ BackendResponds \/ FallbackTimerFires

SpecClient == InitClient /\ [][NextClient]_vars

\* a fetch settles and a timer fires in the end
SpecClientFair ==
    /\ SpecClient
    /\ WF_vars(LoadWeatherData) /\ WF_vars(BackendResponds) /\ WF_vars(FallbackTimerFires)

----------------------------------------------------------------------------
(* The calls *)

Init ==
    /\ weatherHistory = <<>>
    /\ predictCount = 0
    /\ lastCall = NoCall
    /\ callLog = <<>>
    /\ wizard = NewWizard(TRUE)
    /\ client = NewClient

\* calculateWeatherProbabilities(historicalData, targetMonth, targetDay)
CallCalculateWeatherProbabilities(datasets) ==
    \E data \in datasets, target \in TargetDates :
        lastCall' = [op |-> "calculateWeatherProbabilities",
                     args |-> [historicalData |-> data, targetMonth |-> target[1],
                               targetDay |-> target[2]],
                     after |-> callerArrayAfter(data, target[1], target[2]),
                     ret |-> calculateWeatherProbabilities(data, target[1], target[2])]

\* generateRiskAssessment(probabilities)
CallGenerateRiskAssessment(inputs) ==
    \E p \in inputs :
        lastCall' = [op |-> "generateRiskAssessment", args |-> p,
                     ret |-> generateRiskAssessment(p)]

\* WeatherMLModel.calculateProbabilities(predictions)
CallCalculateProbabilities ==
    \E p \in PredictionGrid :
        lastCall' = [op |-> "calculateProbabilities", args |-> p,
                     ret |-> calculateProbabilities(p)]

\* WeatherMLModel.calculateSuitabilityScore(predictions, preset)
CallSuitabilityScoreML ==
    \E p \in ScoreGrid, preset \in Presets \cup OddPresets :
        lastCall' = [op |-> "calculateSuitabilityScore",
                     args |-> [predictions |-> p, preset |-> preset],
                     ret |-> calculateSuitabilityScore(p, preset)]

\* WeatherPredictionApp.calculateSuitabilityScore(weatherAnalysis, healthAnalysis, probabilities)
CallSuitabilityScoreApp ==
    \E ml \in {Undefined, Num(0), Num(3950), Num(10000)}, wa \in Analyses,
       aqi \in {Undefined, Num(0), Num(300), Num(600)}, risks \in AppRisks,
       preset \in {BeachPreset, EmptyPreset} \cup OddPresets :
        lastCall' = [op |-> "appSuitabilityScore",
                     args |-> [mlScore |-> ml, weatherAnalysis |-> wa, aqi |-> aqi,
                               probabilities |-> risks, preset |-> preset],
                     ret |-> appSuitabilityScore(ml, wa, aqi, risks, preset)]

\* A first call of each function, on any of its inputs
FirstCall ==
    lastCall = NoCall /\ UNCHANGED <<weatherHistory, predictCount, callLog, wizard, client>>

EngineCall == FirstCall /\ CallCalculateWeatherProbabilities(Datasets)
RiskCall == FirstCall /\ CallGenerateRiskAssessment(ProbabilitySets)
ProbabilitiesCall == FirstCall /\ CallCalculateProbabilities
ScoreMLCall == FirstCall /\ CallSuitabilityScoreML
ScoreAppCall == FirstCall /\ CallSuitabilityScoreApp

\* records of at most MaxEditedRecords days: two on 4 July, one on 5 July
MaxEditedRecords == 3
EditedDatasets ==
    UNION {[1..n -> { Record(2001, 7, 4, 250, 300, 200, 0, 30, 600),
                      Record(2003, 7, 4, 360, 420, 200, 101, 120, 810),
                      Record(2004, 7, 5, 360, 450, -100, 200, 200, 900) }] :
              n \in 0..MaxEditedRecords}

\* calculateWeatherProbabilities for the same date on two arrays of records
EngineTwiceCall ==
    /\ FirstCall
    /\ \E first \in EditedDatasets, second \in EditedDatasets,
          target \in {<<7, 4>>, <<7, 5>>} :
        lastCall' = [op |-> "calculateWeatherProbabilities twice",
                     args |-> [first |-> first, second |-> second,
                               targetMonth |-> target[1], targetDay |-> target[2]],
                     ret |-> [first |-> calculateWeatherProbabilities(first, target[1], target[2]),
                              second |-> calculateWeatherProbabilities(second, target[1], target[2])]]

\* the very-hot count of one slice at two multipliers k1 <= k2
VeryHotCall ==
    /\ FirstCall
    /\ \E slice \in HotSlices, i \in 1..Len(Multipliers), j \in 1..Len(Multipliers) :
        /\ i <= j
        /\ lastCall' = [op |-> "veryHotDays",
                        args |-> [targetData |-> slice, k1 |-> Multipliers[i],
                                  k2 |-> Multipliers[j]],
                        ret |-> [atK1 |-> veryHotDays(slice, Multipliers[i].kn, Multipliers[i].kd),
                                 atK2 |-> veryHotDays(slice, Multipliers[j].kn, Multipliers[j].kd)]]

\* mean and std of the engine on one array of decimals; the helpers return
\* to their caller, none of them has a throw statement
MeanAndStdCall ==
    /\ FirstCall
    /\ \E data \in Samples :
        LET arr == [i \in 1..Len(data) |-> DoubleOfTenths(data[i])]
        IN lastCall' = [op |-> "std", args |-> [data |-> data],
                        ret |-> [threw |-> FALSE,
                                 value |-> [mean |-> mean(arr), std |-> std(arr)]]]

StatsCall ==
    /\ FirstCall
    /\ \E data \in Samples :
        LET arr == [i \in 1..Len(data) |-> DoubleOfTenths(data[i])]
        IN lastCall' = [op |-> "calculateStats", args |-> [data |-> data],
                        ret |-> [threw |-> FALSE, value |-> calculateStats(arr)]]

ProbabilityCall ==
    /\ FirstCall
    /\ \E data \in Samples, threshold \in {11, 300}, operator \in {">", "<", ">=", "<="} :
        lastCall' = [op |-> "calculateProbability",
                     args |-> [data |-> data, threshold |-> threshold, operator |-> operator],
                     ret |-> [threw |-> FALSE,
                              value |-> calculateProbability(data, threshold, operator)]]

\* WeatherMLModel.calculateProbabilities on predictions of which one
\* quantity is NaN
ProbabilitiesOfNaNCall ==
    /\ FirstCall
    /\ \E p \in PredictionGrid,
          field \in {"temperature", "humidity", "windSpeed", "precipitation", "cloudCover"} :
        LET q == WithNaN(p, field)
            out == calculateProbabilities(p)
        IN lastCall' =
                [op |-> "calculateProbabilitiesOfNaN",
                 args |-> [predictions |-> q, field |-> field],
                 ret |-> [rain |-> NaNIfAny({q.cloudCover, q.humidity, q.precipitation}, out.rain),
                          heavyRain |-> NaNIfAny({q.precipitation}, out.heavyRain),
                          extremeHeat |-> NaNIfAny({q.temperature}, out.extremeHeat),
                          extremeCold |-> NaNIfAny({q.temperature}, out.extremeCold),
                          highWind |-> NaNIfAny({q.windSpeed}, out.highWind),
                          highHumidity |-> NaNIfAny({q.humidity}, out.highHumidity),
                          uncomfortable |-> NaNIfAny({q.temperature, q.humidity, q.windSpeed},
                                                     out.uncomfortable)]]

\* WeatherMLModel.calculateSuitabilityScore on predictions of which one
\* quantity is NaN (typeof NaN is 'number', so a NaN aqi is used as it is)
ScoreOfNaNCall ==
    /\ FirstCall
    /\ \E p \in ScoreGrid,
          field \in {"temperature", "windSpeed", "humidity", "precipitation", "aqi"} :
        LET raw == [f \in DOMAIN p \ {"probabilities"} |-> p[f]]
            q == WithNaN(raw, field)
            out == calculateSuitabilityScore(p, EmptyPreset)
            weather == {q.temperature, q.windSpeed, q.humidity, q.precipitation}
        IN lastCall' =
             [op |-> "calculateSuitabilityScoreOfNaN",
              args |-> [predictions |-> q, probabilities |-> p.probabilities, field |-> field],
              ret |-> [weatherScore |-> NaNIfAny(weather, out.weatherScore),
                       healthScore |-> NaNIfAny({q.aqi}, out.healthScore),
                       score |-> NaNIfAny(weather \cup {q.aqi}, out.score)]]

\* generateRiskAssessment on probabilities of which one is NaN: the
\* penalties are subtracted without a guard (lines 196-201), and NaN > 75
\* and NaN > 50 are false (line 209)
RiskOfNaNCall ==
    /\ FirstCall
    /\ \E p \in ProbabilitySets, field \in Conditions :
        LET q == WithNaN(p.num, field)
            out == generateRiskAssessment(p)
            score == NaNIfAny({q[c] : c \in Conditions}, out.suitability_score)
        IN lastCall' =
             [op |-> "generateRiskAssessmentOfNaN",
              args |-> [probabilities |-> q, den |-> p.den, field |-> field],
              ret |-> [suitability_score |-> score,
                       overall_risk |-> IF score.nan THEN "High" ELSE out.overall_risk]]

\* one probability, in tenths of a percentage point, classified by
\* generateRiskAssessment (risk_levels) and by the card of the dashboard
ClassifyCall ==
    /\ FirstCall
    /\ \E probability \in {0, 149, 150, 151, 299, 300, 301, 1000} :
        lastCall' = [op |-> "classify", args |-> [probability |-> probability],
                     ret |-> [risk_level |-> riskLevelOf(probability, 10),
                              card_class |-> getRiskClass(probability, 10)]]

\* WeatherMLModel.getLocationBasedDefaults(location) at one reading of the clock
DefaultsCall ==
    /\ FirstCall
    /\ \E location \in Locations, clock \in Clocks :
        lastCall' = [op |-> "getLocationBasedDefaults",
                     args |-> [location |-> location, clock |-> clock],
                     ret |-> getLocationBasedDefaults(location, clock)]

\* one series smoothed channel by channel by smoothSeries, and its
\* temperatures smoothed for the chart by smooth
SmoothCall ==
    /\ FirstCall
    /\ \E raw \in SeriesInputs :
        lastCall' = [op |-> "smooth", args |-> [raw |-> raw],
                     ret |-> [temperature |-> smoothSeries(raw, "temperature"),
                              humidity |-> smoothSeries(raw, "humidity"),
                              chart |-> smooth([i \in 1..Len(raw) |-> raw[i].temperature])]]

Next ==
    \/ EngineCall \/ RiskCall \/ ProbabilitiesCall \/ ScoreMLCall \/ ScoreAppCall
    \/ VeryHotCall \/ MeanAndStdCall \/ StatsCall \/ ProbabilityCall
    \/ ProbabilitiesOfNaNCall \/ ScoreOfNaNCall \/ RiskOfNaNCall
    \/ ClassifyCall \/ DefaultsCall \/ SmoothCall \/ EngineTwiceCall

Spec == Init /\ [][Next]_vars

----------------------------------------------------------------------------
(* A long run of predict calls on one WeatherMLModel instance *)

InitML == Init

NextML == Predict

SpecML == InitML /\ [][NextML]_vars

----------------------------------------------------------------------------
(* Calls made one after the other: calculateWeatherProbabilities and       *)
(* generateRiskAssessment on a few inputs, each logged, with predict calls *)
(* of a WeatherMLModel instance in between                                 *)

\* probability sets with rain r and uncomfortable u, in tenths, the others 0
RainAndDiscomfort(r, u) ==
    [den |-> 10,
     num |-> [rain |-> r, heavy_rain |-> 0, very_hot |-> 0, very_cold |-> 0,
              high_wind |-> 0, uncomfortable |-> u]]

RepeatProbabilitySets ==
    {RainAndDiscomfort(0, 0), RainAndDiscomfort(832, 0), RainAndDiscomfort(832, 301)}

RepeatDatasets ==
    { <<Record(2003, 7, 4, 360, 420, 200, 101, 120, 810),
        Record(2004, 7, 5, 360, 450, -100, 200, 200, 900),
        Record(2001, 7, 4, 250, 300, 200, 0, 30, 600)>>,
      <<Record(2004, 6, 4, 360, 450, -100, 200, 200, 900)>> }

RepeatEngineCall ==
    /\ Len(callLog) < MaxRepeatCalls
    /\ CallCalculateWeatherProbabilities(RepeatDatasets)
    /\ callLog' = Append(callLog, lastCall')
    /\ UNCHANGED <<weatherHistory, predictCount, wizard, client>>

RepeatRiskCall ==
    /\ Len(callLog) < MaxRepeatCalls
    /\ CallGenerateRiskAssessment(RepeatProbabilitySets)
    /\ callLog' = Append(callLog, lastCall')
    /\ UNCHANGED <<weatherHistory, predictCount, wizard, client>>

RepeatPredict ==
    /\ predictCount < MaxVariedCalls
    /\ PredictFrom({DefaultLocation}, {EmptyPreset}, {MidClock}, {MidDraws})

InitRepeat == Init

NextRepeat == RepeatEngineCall \/ RepeatRiskCall \/ RepeatPredict

SpecRepeat == InitRepeat /\ [][NextRepeat]_vars

----------------------------------------------------------------------------
(* C1: after n predict calls the buffer holds exactly the min(n, 48) most  *)
(* recent predictions, oldest first, and never more than 48.               *)

HistoryHoldsMostRecent ==
    /\ Len(weatherHistory) = Min(predictCount, 48)
    /\ Len(weatherHistory) <= 48
    /\ \A i \in 1..Len(weatherHistory) :
          weatherHistory[i].id = predictCount - Len(weatherHistory) + i
    /\ (predictCount > 0 =>
          /\ lastCall.op = "predict"
          /\ weatherHistory[Len(weatherHistory)] = historyEntry(lastCall.ret))

\* 50 calls made: the buffer holds predictions 3..50
HistoryEvictedTwo ==
    /\ predictCount = 50
    /\ Len(weatherHistory) = 48
    /\ weatherHistory[1].id = 3
    /\ weatherHistory[48].id = 50

----------------------------------------------------------------------------
(* Reading a call of calculateWeatherProbabilities from its arguments *)

IsEngineCall(call) == call.op = "calculateWeatherProbabilities"

\* the positions of the caller's records that are on the target date
MatchingIndexes(call) ==
    {i \in 1..Len(call.args.historicalData) :
        /\ call.args.historicalData[i].month = call.args.targetMonth
        /\ call.args.historicalData[i].day = call.args.targetDay}

\* p, in tenths of a percentage point, is count / n * 100 rounded to one
\* decimal: no other tenth is nearer
IsRoundedShare(p, count, n) == 2 * Abs(p * n - 1000 * count) <= n

----------------------------------------------------------------------------
(* C2: when no record of the input is on the target date (an empty input   *)
(* included), calculateWeatherProbabilities returns the no-historical-data *)
(* error and nothing else: no probabilities, thresholds or averages.       *)

NoMatchGivesErrorOnly ==
    (IsEngineCall(lastCall) /\ MatchingIndexes(lastCall) = {}) =>
        /\ DOMAIN lastCall.ret = {"error"}
        /\ lastCall.ret.error = "No historical data available for this date"

\* three records, on the next day and in the month before, none on 4 July
NoMatchInNonEmptyTable ==
    /\ IsEngineCall(lastCall)
    /\ Len(lastCall.args.historicalData) = 3
    /\ lastCall.args.targetMonth = 7 /\ lastCall.args.targetDay = 4
    /\ \E i, j \in 1..3 :
          /\ lastCall.args.historicalData[i].month = 7
          /\ lastCall.args.historicalData[i].day = 5
          /\ lastCall.args.historicalData[j].month = 6
          /\ lastCall.args.historicalData[j].day = 4
    /\ MatchingIndexes(lastCall) = {}
    /\ DOMAIN lastCall.ret = {"error"}

----------------------------------------------------------------------------
(* C3: for a slice of N > 0 matching records of which k have precipitation *)
(* > 1.0, rain_probability is k / N * 100 rounded to one decimal (6 of 20  *)
(* gives 30.0); heavy_rain_probability likewise with precipitation > 10.0  *)
(* and high_humidity_probability with humidity > 80.                       *)

----------------------------------------------------------------------------
(* C4: every probability produced lies in [0, 100]: the seven returned by  *)
(* calculateWeatherProbabilities for a non-empty slice and the seven       *)
(* returned by WeatherMLModel.calculateProbabilities.                      *)

ProbabilitiesWithinRange ==
    /\ (IsEngineCall(lastCall) /\ MatchingIndexes(lastCall) # {}) =>
          /\ DOMAIN lastCall.ret.probabilities =
                {"rain_probability", "heavy_rain_probability", "very_hot_probability",
                 "very_cold_probability", "high_wind_probability",
                 "high_humidity_probability", "uncomfortable_probability"}
          /\ \A k \in DOMAIN lastCall.ret.probabilities :
                lastCall.ret.probabilities[k] \in 0..1000
    /\ lastCall.op = "calculateProbabilities" =>
          /\ DOMAIN lastCall.ret =
                {"rain", "heavyRain", "extremeHeat", "extremeCold", "highWind",
                 "highHumidity", "uncomfortable"}
          /\ \A k \in DOMAIN lastCall.ret : lastCall.ret[k] \in 0..(100 * 3000)

\* a hot, humid, overcast and wet prediction: the rain formula gives more
\* than 100 and the cold formula less than 0
ProbabilityClampedAtBothEnds ==
    /\ lastCall.op = "calculateProbabilities"
    /\ lastCall.args.temperature = 4500
    /\ 24 * lastCall.args.cloudCover + 12 * lastCall.args.humidity - 40 * 3000
          + 450 * lastCall.args.precipitation > 100 * 3000
    /\ lastCall.ret.rain = 100 * 3000
    /\ lastCall.ret.extremeCold = 0

----------------------------------------------------------------------------
(* C5: every suitability score returned lies in [0, 100]: the              *)
(* suitability_score of generateRiskAssessment, and the score of           *)
(* calculateSuitabilityScore of weather_ml_integration.js and of app.js,   *)
(* for any preset weights, negative ones and ones summing to more than 1   *)
(* included.                                                               *)

SuitabilityScoresWithinRange ==
    /\ lastCall.op = "generateRiskAssessment" =>
          lastCall.ret.suitability_score \in 0..1000
    /\ (IsEngineCall(lastCall) /\ MatchingIndexes(lastCall) # {}) =>
          lastCall.ret.risk_assessment.suitability_score \in 0..1000
    /\ lastCall.op = "calculateSuitabilityScore" => lastCall.ret.score \in 0..100
    /\ lastCall.op = "appSuitabilityScore" => lastCall.ret.score \in 0..100

\* a negative temperature weight drives the weather component and the
\* blend below 0; the score returned is 0
NegativeWeightsClamped ==
    /\ lastCall.op = "calculateSuitabilityScore"
    /\ lastCall.args.preset.weights.def
    /\ lastCall.args.preset.weights.v.temp.v < 0
    /\ lastCall.ret.weatherScore < 0
    /\ 75 * lastCall.ret.weatherScore + 20 * lastCall.ret.healthScore
          + 5 * lastCall.ret.riskScore < -50
    /\ lastCall.ret.score = 0

----------------------------------------------------------------------------
(* C6: the recommendations of generateRiskAssessment are never empty; they *)
(* are the fallback string alone exactly when none of the six rules        *)
(* triggers, and otherwise exactly the advisories of the triggered rules,  *)
(* in the order rain, heavy_rain, very_hot, very_cold, high_wind,          *)
(* uncomfortable, without the fallback.  With all six probabilities 0 the  *)
(* result is the fallback alone, suitability_score 100, overall_risk Low.  *)

FixedRuleOrder ==
    <<"rain", "heavy_rain", "very_hot", "very_cold", "high_wind", "uncomfortable">>

RecommendationsFollowRules ==
    lastCall.op = "generateRiskAssessment" =>
        LET p == lastCall.args
            recs == lastCall.ret.recommendations
            triggered == {i \in 1..6 : ruleTriggers(p, FixedRuleOrder[i])}
            \* the rule whose advisory stands at position k
            ruleAt(k) == CHOOSE i \in 1..6 : advisory(FixedRuleOrder[i]) = recs[k]
        IN /\ Len(recs) >= 1
           /\ (recs = <<"Generally favorable weather conditions expected">>) <=> (triggered = {})
           /\ triggered # {} =>
                 /\ Len(recs) = Cardinality(triggered)
                 /\ \A k \in 1..Len(recs) :
                       \E i \in triggered : advisory(FixedRuleOrder[i]) = recs[k]
                 /\ \A k \in 1..(Len(recs) - 1) : ruleAt(k) < ruleAt(k + 1)
           /\ (\A c \in DOMAIN p.num : p.num[c] = 0) =>
                 /\ recs = <<"Generally favorable weather conditions expected">>
                 /\ lastCall.ret.suitability_score = 1000
                 /\ lastCall.ret.overall_risk = "Low"

\* rain and high wind just above their thresholds, heavy rain and
\* uncomfortable exactly at theirs: two advisories, rain first
TwoRulesTriggered ==
    /\ lastCall.op = "generateRiskAssessment"
    /\ lastCall.args.den = 10
    /\ lastCall.args.num = [rain |-> 251, heavy_rain |-> 100, very_hot |-> 0,
                            very_cold |-> 200, high_wind |-> 251, uncomfortable |-> 300]
    /\ lastCall.ret.recommendations =
          <<"High chance of rain - bring waterproof clothing",
            "High wind probability - secure loose items">>

----------------------------------------------------------------------------
(* C7: in every result of generateRiskAssessment overall_risk agrees with  *)
(* the returned suitability_score: Low if and only if suitability_score >  *)
(* 75, Moderate if and only if 50 < suitability_score <= 75, High if and   *)
(* only if suitability_score <= 50.                                        *)

OverallRiskAgreesWithReturnedScore ==
    lastCall.op = "generateRiskAssessment" =>
        LET s == lastCall.ret.suitability_score       \* tenths
            risk == lastCall.ret.overall_risk
        IN /\ (risk = "Low") <=> (s > 750)
           /\ (risk = "Moderate") <=> (s > 500 /\ s <= 750)
           /\ (risk = "High") <=> (s <= 500)

----------------------------------------------------------------------------
(* C8: when the weather, health and risk components all equal one value v  *)
(* in 0..100, the score returned equals v, under the blend of              *)
(* weather_ml_integration.js and under the blend of app.js; components     *)
(* 100, 100, 100 give 100.                                                 *)

EqualComponentsGiveThatScore ==
    lastCall.op \in {"calculateSuitabilityScore", "appSuitabilityScore"} =>
        LET r == lastCall.ret
        IN (r.weatherScore = r.healthScore /\ r.healthScore = r.riskScore
            /\ r.weatherScore \in 0..100) => r.score = r.weatherScore

\* all three components of WeatherMLModel.calculateSuitabilityScore are 40
AllComponentsForty ==
    /\ lastCall.op = "calculateSuitabilityScore"
    /\ lastCall.ret.weatherScore = 40
    /\ lastCall.ret.healthScore = 40
    /\ lastCall.ret.riskScore = 40
    /\ lastCall.ret.score = 40

----------------------------------------------------------------------------
(* C9: generateRiskAssessment is deterministic: two calls with equal       *)
(* probability sets return equal risk_levels, recommendations (the same    *)
(* strings in the same order), suitability_score and overall_risk,         *)
(* whatever calls are made in between.                                     *)

----------------------------------------------------------------------------
(* C10: two calls of calculateWeatherProbabilities with the same records   *)
(* and the same target month and day return the same output, and a call    *)
(* leaves the caller's records unchanged: their number, order and field    *)
(* values.                                                                 *)

----------------------------------------------------------------------------
(* C11: for a fixed non-empty slice the very_hot share does not increase   *)
(* with the threshold multiplier: for k1 <= k2,                            *)
(* count(max > mean + k2 * std) / N <= count(max > mean + k1 * std) / N.   *)

VeryHotShareFallsWithMultiplier ==
    lastCall.op = "veryHotDays" =>
        LET a == lastCall.args
            n == Len(a.targetData)
        IN (n > 0 /\ a.k1.kn * a.k2.kd <= a.k2.kn * a.k1.kd) =>
               /\ lastCall.ret.atK2 * n <= lastCall.ret.atK1 * n
               /\ lastCall.ret.atK1 \in 0..n

\* three days, one of them hotter: it is above mean + std and not above
\* mean + 1.5 std
HotDayLostAtHigherMultiplier ==
    /\ lastCall.op = "veryHotDays"
    /\ Len(lastCall.args.targetData) = 3
    /\ lastCall.args.k1 = [kn |-> 1, kd |-> 1]
    /\ lastCall.args.k2 = [kn |-> 3, kd |-> 2]
    /\ lastCall.ret.atK1 = 1
    /\ lastCall.ret.atK2 = 0

----------------------------------------------------------------------------
(* C12: the population standard deviation the statistics helpers return    *)
(* for a non-empty sequence is never negative, and it is 0 if and only if  *)
(* all elements of the sequence are equal.                                 *)

IsStatsCall(call) == call.op \in {"std", "calculateStats"}

AllEqual(data) == \A i, j \in 1..Len(data) : data[i] = data[j]

StdZeroIffAllEqual ==
    (IsStatsCall(lastCall) /\ lastCall.args.data # <<>>) =>
        /\ lastCall.ret.value.std \in {"zero", "positive"}
        /\ lastCall.ret.value.std = "zero" <=> AllEqual(lastCall.args.data)

----------------------------------------------------------------------------
(* C13: a statistics helper given an empty sequence fails with an          *)
(* empty-input error that reaches its caller; it returns neither 0 nor a   *)
(* record of zeros.                                                        *)

IsHelperCall(call) == call.op \in {"std", "calculateStats", "calculateProbability"}

EmptyInputFails ==
    (IsHelperCall(lastCall) /\ lastCall.args.data = <<>>) =>
        lastCall.ret.threw

----------------------------------------------------------------------------
(* C14: when a quantity a clamped output is computed from is NaN, the      *)
(* output equals the lower bound of its clamp, 0, and is never NaN: the    *)
(* probabilities of calculateProbabilities, the health score and the final *)
(* score of calculateSuitabilityScore, the suitability_score of            *)
(* generateRiskAssessment.                                                 *)

\* the quantities each probability of calculateProbabilities is computed from
ComputedFrom(output) ==
    CASE output = "rain" -> {"cloudCover", "humidity", "precipitation"}
      [] output = "heavyRain" -> {"precipitation"}
      [] output \in {"extremeHeat", "extremeCold"} -> {"temperature"}
      [] output = "highWind" -> {"windSpeed"}
      [] output = "highHumidity" -> {"humidity"}
      [] output = "uncomfortable" -> {"temperature", "humidity", "windSpeed"}

NaNInputGivesLowerBound ==
    /\ lastCall.op = "calculateProbabilitiesOfNaN" =>
          \A output \in DOMAIN lastCall.ret :
              /\ ~lastCall.ret[output].nan
              /\ lastCall.args.field \in ComputedFrom(output) => lastCall.ret[output].v = 0
    /\ lastCall.op = "calculateSuitabilityScoreOfNaN" =>
          /\ ~lastCall.ret.healthScore.nan
          /\ ~lastCall.ret.score.nan
          /\ lastCall.args.field = "aqi" => lastCall.ret.healthScore.v = 0
    /\ lastCall.op = "generateRiskAssessmentOfNaN" =>
          lastCall.ret.suitability_score = Number(0)

----------------------------------------------------------------------------
(* C15: in calculateSuitabilityScore (the model's and the app's), when the *)
(* four weather weights have a non-zero sum the four normalised weights    *)
(* sum to 1 whatever the air_quality weight is; when their sum is zero the *)
(* divisor 1 is used, nothing is divided by zero, and the returned score   *)
(* is still a number from 0 to 100.                                        *)

IsNormalisingCall(call) ==
    /\ call.op \in {"calculateSuitabilityScore", "appSuitabilityScore"}
    /\ "weights" \in DOMAIN call.ret

\* the sum of the four weather weights of a preset, in hundredths
WeatherWeightSum(preset) ==
    LET w == presetWeights(preset)
    IN OrElse(w.temp, 0) + OrElse(w.wind, 0) + OrElse(w.humidity, 0)
       + OrElse(w.precipitation, 0)

----------------------------------------------------------------------------
(* C16: the fixed thresholds of calculateWeatherProbabilities are          *)
(* inclusive: a day with precipitation exactly 1.0 mm counts as a rain     *)
(* day, one with exactly 10.0 mm as a heavy-rain day, one with humidity    *)
(* exactly 80 % as a high-humidity day.                                    *)

FixedThresholdsAreInclusive ==
    (IsEngineCall(lastCall) /\ MatchingIndexes(lastCall) # {}) =>
        LET data == lastCall.args.historicalData
            slice == MatchingIndexes(lastCall)
            n == Cardinality(slice)
            rainy == Cardinality({i \in slice : data[i].PRECTOTCORR >= 10})
            heavy == Cardinality({i \in slice : data[i].PRECTOTCORR >= 100})
            humid == Cardinality({i \in slice : data[i].RH2M >= 800})
            pr == lastCall.ret.probabilities
        IN /\ IsRoundedShare(pr.rain_probability, rainy, n)
           /\ IsRoundedShare(pr.heavy_rain_probability, heavy, n)
           /\ IsRoundedShare(pr.high_humidity_probability, humid, n)

----------------------------------------------------------------------------
(* C17: a probability p in [0, 100] is High if and only if p >= 30,        *)
(* Moderate if and only if 15 <= p < 30 and Low if and only if p < 15, and *)
(* every place that classifies a probability assigns that level: the       *)
(* risk_levels of generateRiskAssessment and the card class getRiskClass   *)
(* (risk-high, risk-moderate, risk-low).                                   *)

RiskLevelSameEverywhere ==
    lastCall.op = "classify" =>
        LET p == lastCall.args.probability      \* in tenths
            level == IF p >= 300 THEN "High" ELSE IF p >= 150 THEN "Moderate" ELSE "Low"
            class == IF p >= 300 THEN "risk-high"
                     ELSE IF p >= 150 THEN "risk-moderate" ELSE "risk-low"
        IN /\ lastCall.ret.risk_level = level
           /\ lastCall.ret.card_class = class

----------------------------------------------------------------------------
(* C18: for every latitude in [-90, 90] getLocationBasedDefaults takes the *)
(* tropical zone if and only if |lat| < 23.5 (the equator, lat 0, is       *)
(* tropical), the temperate zone if and only if 23.5 <= |lat| < 50, and    *)
(* the polar zone otherwise.                                               *)

ZoneFollowsLatitude ==
    (lastCall.op = "getLocationBasedDefaults" /\ lastCall.args.location.lat.def) =>
        LET lat == lastCall.args.location.lat.v      \* in hundredths of a degree
        IN lastCall.ret.zone = IF Abs(lat) < 2350 THEN "tropical"
                               ELSE IF Abs(lat) < 5000 THEN "temperate" ELSE "polar"

----------------------------------------------------------------------------
(* C19: calculateSuitabilityScore scores with every range field the preset *)
(* supplies exactly as given, a 0 included (precipMax: 0 of the            *)
(* photography and stargazing presets), and with the default (18, 26, 15,  *)
(* 70, 2) only for a field that is absent.                                 *)

\* the default ranges, in hundredths
DefaultRanges ==
    [tempMin |-> 1800, tempMax |-> 2600, windMax |-> 1500, humidityMax |-> 7000,
     precipMax |-> 200]

SuppliedRangesUsedAsGiven ==
    lastCall.op = "calculateSuitabilityScore" =>
        LET preset == lastCall.args.preset
            p == lastCall.args.predictions
            given(field) == IF preset[field].def THEN preset[field].v ELSE DefaultRanges[field]
        IN /\ \A field \in DOMAIN DefaultRanges : lastCall.ret.ranges[field] = given(field)
           /\ lastCall.ret.components.precipitation =
                  MathRound(scoreMaxValue(p.precipitation, given("precipMax")), 10000)

----------------------------------------------------------------------------
(* C20: in predict, when the buffer is empty the lag features              *)
(* temperature_lag1, humidity_lag1 and pressure_lag1 are the zone defaults *)
(* of the location; when it holds n >= 1 predictions they are the simple   *)
(* averages of the temperature, humidity and pressure of the last          *)
(* min(3, n) buffered predictions, whatever those values are.              *)

\* the predictions that were buffered before the last call, newest last:
\* the buffer now ends with the prediction of that call
BufferedBefore(k) ==
    [i \in 1..k |-> weatherHistory[Len(weatherHistory) - k - 1 + i]]

LagFeaturesFromBuffer ==
    lastCall.op = "predict" =>
        LET f == lastCall.ret.features
            n == predictCount - 1
            k == Min(3, Min(n, Len(weatherHistory) - 1))
            recent == BufferedBefore(k)
            average(values) == MathRound(SumSeq(values), k)
            clock == [hour |-> f.hour, day_of_year |-> f.day_of_year,
                      seasonal |-> f.seasonal_factor, daily |-> f.daily_factor]
            defaults == getLocationBasedDefaults(lastCall.args.location, clock)
        IN IF n = 0
           THEN /\ f.temperature_lag1 = defaults.temperature
                /\ f.humidity_lag1 = defaults.humidity
                /\ f.pressure_lag1 = defaults.pressure
           ELSE /\ k = Min(3, n)
                /\ f.temperature_lag1 = average([i \in 1..k |-> recent[i].temperature])
                /\ f.humidity_lag1 = average([i \in 1..k |-> recent[i].humidity])
                /\ f.pressure_lag1 = average([i \in 1..k |-> recent[i].pressure])

----------------------------------------------------------------------------
(* C21: after any sequence of predict calls on one instance, for any       *)
(* locations and random draws, every returned bundle has temperature in    *)
(* [-20, 45], humidity in [15, 95] and an integer aqi in [0, 500]; earlier *)
(* predictions fed back as lag features never drive a later output outside *)
(* these ranges.                                                           *)

\* a bundle or a buffered prediction, its quantities in hundredths
QuantitiesWithinRange(b) ==
    /\ b.temperature \in -2000..4500
    /\ b.humidity \in 1500..9500
    /\ b.aqi \in 0..50000
    /\ b.aqi % 100 = 0

PredictedQuantitiesWithinRange ==
    /\ lastCall.op = "predict" => QuantitiesWithinRange(lastCall.ret)
    /\ \A i \in 1..Len(weatherHistory) : QuantitiesWithinRange(weatherHistory[i])

\* a later call whose lag features come from the buffer and whose humidity
\* is held at the upper end of its range
HumidityHeldAtUpperEnd ==
    /\ lastCall.op = "predict"
    /\ predictCount >= 3
    /\ lastCall.ret.features.humidity_lag1 = weatherHistory[Len(weatherHistory) - 1].humidity
    /\ lastCall.ret.humidity = 9500

----------------------------------------------------------------------------
(* C22: for a series of length L >= 1 the smoothed value at each index is  *)
(* the arithmetic mean of exactly the elements at the indices i - 1, i,    *)
(* i + 1 that lie inside the series (two at each end when L >= 2, one when *)
(* L = 1, three elsewhere); the smoothed series has length L and each      *)
(* channel is smoothed from its own values only.  smoothSeries returns     *)
(* that mean; smooth of prepareChartData returns it rounded to one         *)
(* decimal.                                                                *)

\* the positions of the window of position i in a series of length L
WindowOf(i, L) == {j \in 1..L : j >= i - 1 /\ j <= i + 1}

\* the sum of one channel over a set of positions of the series
RECURSIVE ChannelSum(_, _, _)
ChannelSum(raw, key, positions) ==
    IF positions = {} THEN 0
    ELSE LET j == CHOOSE k \in positions : TRUE
         IN raw[j][key] + ChannelSum(raw, key, positions \ {j})

\* the [sum, count] fractions of a channel are the means over the windows
IsWindowMeans(smoothed, raw, key) ==
    /\ Len(smoothed) = Len(raw)
    /\ \A i \in 1..Len(raw) :
          LET window == WindowOf(i, Len(raw))
          IN /\ Cardinality(window) =
                    IF Len(raw) = 1 THEN 1 ELSE IF i \in {1, Len(raw)} THEN 2 ELSE 3
             /\ smoothed[i].count # 0
             /\ smoothed[i].sum * Cardinality(window)
                    = ChannelSum(raw, key, window) * smoothed[i].count

SmoothedIsWindowMean ==
    lastCall.op = "smooth" =>
        LET raw == lastCall.args.raw
        IN /\ IsWindowMeans(lastCall.ret.temperature, raw, "temperature")
           /\ IsWindowMeans(lastCall.ret.humidity, raw, "humidity")
           /\ Len(lastCall.ret.chart) = Len(raw)
           /\ \A i \in 1..Len(raw) :
                 LET window == WindowOf(i, Len(raw))
                 \* no other tenth is nearer to the mean
                 IN 2 * Abs(lastCall.ret.chart[i] * Cardinality(window)
                            - ChannelSum(raw, "temperature", window))
                        <= Cardinality(window)

\* four days: windows of two at the ends, of three in between
FourDaysSmoothed ==
    /\ lastCall.op = "smooth"
    /\ Len(lastCall.args.raw) = 4
    /\ lastCall.args.raw[1].temperature = 100
    /\ lastCall.args.raw[2].temperature = 115
    /\ lastCall.args.raw[3].temperature = 131
    /\ lastCall.ret.temperature[1] = [sum |-> 215, count |-> 2]
    /\ lastCall.ret.temperature[2] = [sum |-> 346, count |-> 3]
    /\ lastCall.ret.chart[1] = 108
    /\ lastCall.ret.chart[2] = 115

\* the claim as written: smooth of prepareChartData too returns the mean
SmoothedIsExactMeanEverywhere ==
    lastCall.op = "smooth" =>
        \A i \in 1..Len(lastCall.args.raw) :
            LET window == WindowOf(i, Len(lastCall.args.raw))
            IN lastCall.ret.chart[i] * Cardinality(window)
                   = ChannelSum(lastCall.args.raw, "temperature", window)

----------------------------------------------------------------------------
(* C23: the final suitability score is composed as weather 70 %, health    *)
(* 20 %, risk 10 %: round(0.7 weather + 0.2 health + 0.1 risk), clamped to *)
(* [0, 100], in calculateSuitabilityScore of the ML integration and in     *)
(* calculateSuitabilityScore of app.js alike.                              *)

ScoreIsSeventyTwentyTen ==
    lastCall.op \in {"calculateSuitabilityScore", "appSuitabilityScore"} =>
        LET r == lastCall.ret
        IN r.score = Min(100, Max(0, MathRound(70 * r.weatherScore + 20 * r.healthScore
                                                + 10 * r.riskScore, 100)))

----------------------------------------------------------------------------
(* C24: for every non-empty slice of records on the target date, the       *)
(* reported thresholds.very_hot_threshold is strictly greater than the     *)
(* reported historical_averages.avg_max_temp.                              *)

MaxTempsOf(call) ==
    LET data == call.args.historicalData
        n == Len(data)
    IN [i \in 1..Cardinality(MatchingIndexes(call)) |->
           LET k == CHOOSE k \in MatchingIndexes(call) :
                        Cardinality({j \in MatchingIndexes(call) : j <= k}) = i
           IN data[k].T2M_MAX]

----------------------------------------------------------------------------
(* C27: the result of calculateWeatherProbabilities depends only on the    *)
(* records whose month and day equal the target: two arrays with the same  *)
(* records on the target date (others added, removed or changed) give the  *)
(* same probabilities, thresholds, historical_averages, location_stats and *)
(* risk_assessment.                                                        *)

IsEngineTwiceCall(call) == call.op = "calculateWeatherProbabilities twice"

\* the records of data on the target date, in order
OnTargetDate(data, call) ==
    SelectSeq(data, LAMBDA r : r.month = call.args.targetMonth /\ r.day = call.args.targetDay)

OutputDependsOnMatchingRecordsOnly ==
    (/\ IsEngineTwiceCall(lastCall)
     /\ OnTargetDate(lastCall.args.first, lastCall)
            = OnTargetDate(lastCall.args.second, lastCall)) =>
        lastCall.ret.first = lastCall.ret.second

\* a record of another day between two records on the date in one array,
\* left out of the other
OtherDayRecordRemoved ==
    /\ IsEngineTwiceCall(lastCall)
    /\ Len(lastCall.args.first) = 3
    /\ Len(lastCall.args.second) = 2
    /\ lastCall.args.first[2].day # lastCall.args.targetDay
    /\ OnTargetDate(lastCall.args.first, lastCall) = lastCall.args.second
    /\ lastCall.args.second[1] # lastCall.args.second[2]
    /\ lastCall.ret.first.location_stats.total_records = 2
    /\ lastCall.ret.first = lastCall.ret.second

----------------------------------------------------------------------------
(* C30: predict never returns a temperature below 0 (its Math.max(0, ...)  *)
(* overrides the -20 lower bound of the temperature model), so             *)
(* probabilities.extremeCold is at most 30 in every returned bundle.       *)

\* temperature in hundredths, extremeCold in 1/3000 of a percentage point
ColdIsFloored(b) ==
    /\ b.temperature >= 0
    /\ b.probabilities.extremeCold <= 30 * 3000

TemperatureNeverBelowZero ==
    /\ lastCall.op = "predict" => ColdIsFloored(lastCall.ret)
    /\ \A i \in 1..Len(weatherHistory) : weatherHistory[i].temperature >= 0

\* a bundle whose temperature model went below zero: temperature 0 and
\* extremeCold exactly 30
FrozenBundle ==
    /\ lastCall.op = "predict"
    /\ \E draws \in {Uniform(0), Uniform(99)} :
          TemperatureModel(lastCall.ret.features, draws["temperature"]) < 0
    /\ lastCall.ret.temperature = 0
    /\ lastCall.ret.probabilities.extremeCold = 30 * 3000

----------------------------------------------------------------------------
(* C29: under any sequence of selectPreset, selectMode, map location       *)
(* selections, nextStep, prevStep, analyzeWeather (its asynchronous        *)
(* completion included) and startOver, currentStep stays within 1..5,      *)
(* selectedPreset is non-null whenever currentStep >= 2 and selectedMode   *)
(* is non-null whenever currentStep >= 3.                                  *)

StepsHaveTheirSelections ==
    /\ wizard.currentStep \in 1..5
    /\ wizard.currentStep >= 2 => wizard.selectedPreset # "null"
    /\ wizard.currentStep >= 3 => wizard.selectedMode # "null"

----------------------------------------------------------------------------
(* C25: whenever the backend is not reachable at the time an analysis is   *)
(* requested (not reachable at start-up already, or no longer reachable    *)
(* afterwards), analyzeWeather completes with results computed from the    *)
(* fallback sample data instead of ending in an error.                     *)

RequestedWhileUnreachable(id) ==
    Len(client.invocations) >= id /\ client.invocations[id].unreachable

EndedWithFallbackResults(id) ==
    /\ Len(client.invocations) >= id
    /\ client.invocations[id].outcome = "results"
    /\ client.invocations[id].results.data_source = "Sample Data (Fallback Mode)"

FallbackWheneverUnreachable ==
    \A id \in 1..MaxInvocations :
        RequestedWhileUnreachable(id) ~> EndedWithFallbackResults(id)

----------------------------------------------------------------------------
(* C26: analyzeWithNASAData returns a cached result without contacting the *)
(* backend only if an entry for the same latitude, longitude and date was  *)
(* stored less than cacheTimeout (5 minutes) earlier; in every other case  *)
(* it contacts the backend; it stores or replaces a cache entry only after *)
(* a successful response and leaves the cache unchanged when the request   *)
(* fails.                                                                  *)

\* the step is an invocation of analyzeWeather that goes through
\* analyzeWithNASAData
NasaInvocation ==
    /\ Len(client'.invocations) = Len(client.invocations) + 1
    /\ client.backendAvailable = "true"

InvokedKey == client'.invocations[Len(client'.invocations)].key

\* an entry for the key was stored less than five minutes before now
StoredLately(key) ==
    /\ key \in DOMAIN client.requestCache
    /\ client.requestCache[key].timestamp > client.now - 5

ReturnsCachedWithoutRequest ==
    /\ client'.inFlight = client.inFlight
    /\ InvokedKey \in DOMAIN client.requestCache
    /\ client'.invocations[Len(client'.invocations)].outcome = "results"
    /\ client'.currentResults = client.requestCache[InvokedKey].data

ContactsBackend ==
    client'.inFlight = Append(client.inFlight,
                              [id |-> Len(client'.invocations), await |-> "fetch",
                               key |-> InvokedKey])

\* the step is the successful response to the request in flight r
SuccessfulResponseTo(r) ==
    /\ r.await = "fetch"
    /\ client.invocations[r.id].outcome = "pending"
    /\ client'.invocations[r.id].outcome = "results"
    /\ client.reachable

CacheServesRecentEntriesOnly ==
    [][/\ NasaInvocation =>
            /\ ReturnsCachedWithoutRequest \/ ContactsBackend
            /\ ReturnsCachedWithoutRequest => StoredLately(InvokedKey)
            /\ ~StoredLately(InvokedKey) => ContactsBackend
       /\ client'.requestCache # client.requestCache =>
            \E i \in 1..Len(client.inFlight) :
               LET r == client.inFlight[i]
               IN /\ SuccessfulResponseTo(r)
                  /\ DOMAIN client'.requestCache = DOMAIN client.requestCache \cup {r.key}
                  /\ client'.requestCache[r.key] =
                        [data |-> client'.invocations[r.id].results, timestamp |-> client.now]
                  /\ \A k \in DOMAIN client.requestCache \ {r.key} :
                        client'.requestCache[k] = client.requestCache[k]]_vars

\* a second analysis of the same place and date, four minutes after the
\* first one was answered, is served from the cache
ServedFromCacheAfterFourMinutes ==
    /\ Len(client.invocations) = 2
    /\ client.invocations[1].path = "fetch"
    /\ client.invocations[1].outcome = "results"
    /\ client.invocations[2].path = "cache"
    /\ client.invocations[2].key = client.invocations[1].key
    /\ client.now - client.requestCache[client.invocations[2].key].timestamp = 4
    /\ client.currentResults = client.invocations[1].results

----------------------------------------------------------------------------
(* C28: if analyzeWeather is invoked again, for a different location or    *)
(* date, before an earlier invocation has completed, then once both have   *)
(* completed, currentResults and the displayed results are those of the    *)
(* later invocation, whatever order the two responses arrive in.           *)

LaterInvocationWins ==
    LET n == Len(client.invocations)
    IN (/\ n >= 2
        /\ client.invocations[n].overlaps
        /\ client.invocations[n].key # client.invocations[n - 1].key
        /\ client.invocations[n].outcome = "results"
        /\ client.invocations[n - 1].outcome = "results") =>
           /\ client.currentResults = client.invocations[n].results
           /\ client.displayed = client.invocations[n].results

====
